---- MODULE Spec2Model ----
(***************************************************************************)
(* Target/dependency database of make (src/file.c) and the path           *)
(* normalizer (src/misc.c), as a state machine.                            *)
(*                                                                         *)
(* Strings are sequences of one-character strings.  Pointers to struct     *)
(* file and struct dep are indices into the arenas `files' and `deps';     *)
(* the null pointer is 0.                                                  *)
(***************************************************************************)
EXTENDS Integers, Sequences, FiniteSets, TLC

VARIABLES
  nin,              \* normalizer harness: the input string
  nout,             \* normalizer harness: normalize(nin)
  nout2,            \* normalizer harness: normalize(normalize(nin))
  npc,              \* normalizer harness: "idle", "start", "once", "twice"
  files,            \* arena of struct file, indexed 1..Len(files)
  table,            \* the hash table `files': the set of struct file in it
  deps,             \* arena of struct dep, indexed 1..Len(deps)
  rehashed_files,   \* the permanent list of renamed-away files
  status,           \* "running", "fatal" (fatal()), "abort" (abort()/assert)
  errors,           \* number of error() diagnostics printed so far
  op,               \* the last operation and what it did
  tracking,         \* whether `entered' is being recorded in this behaviour
  entered,          \* per name: node returned by the latest enter_file call
  filecap,          \* how many struct file xcalloc may still hand out in all
  ptext,            \* the text handed to split_prereqs
  ret,              \* the struct dep list returned by the last call
  stack,            \* the active expand_deps calls, innermost first
  rule,             \* the rule handed to enter_prereqs: owner, cells, stem
  xlog,             \* journal: node, edge and text of every expansion made
  xdone,            \* the last expand_deps call that returned: node, old list
  globals,          \* the global flags snap_deps and remove_intermediates use
  reaper,           \* what remove_intermediates did: unlink calls, output
  tok,              \* tokenizer harness: buffer, *s, *tokenlen, *status, token
  js                \* jobserver: semaphore, tokens held, where each call is

vars == <<nin, nout, nout2, npc, files, table, deps, rehashed_files, status,
          errors, op, tracking, entered, filecap, ptext, ret, stack, rule, xlog,
          xdone, globals, reaper, tok, js>>

\* what the operations on the registry leave alone
sidevars == <<nin, nout, nout2, npc, tok, js>>
xvars == <<stack, xlog, xdone>>
snapvars == <<globals, reaper>>
auxvars == <<ptext, ret, rule, xvars, snapvars>>
regvars == <<files, table, deps, rehashed_files, status, errors, op, tracking,
             entered, filecap, auxvars>>

(***************************************************************************)
(* Bounds.                                                                 *)
(***************************************************************************)
MaxLen == 5

(***************************************************************************)
(* Strings.                                                                *)
(***************************************************************************)
Alphabet == {".", "/", "a"}

RECURSIVE StringsUpTo(_)
StringsUpTo(n) ==
  IF n = 0 THEN {<<>>}
  ELSE LET shorter == StringsUpTo(n - 1)
       IN  shorter \cup {Append(s, c) : s \in {t \in shorter : Len(t) = n - 1},
                                        c \in Alphabet}

DotSlash == <<".", "/">>
FooExample == <<"f","o","o","/",".","/","/","/",".","/","/","/","b","a","r","/">>
FooBar == <<"f","o","o","/","b","a","r","/">>

Tail0(s, k) == SubSeq(s, k + 1, Len(s))      \* the C pointer s + k

\* strspn (s, "/")
RECURSIVE SlashSpan(_)
SlashSpan(s) == IF s # <<>> /\ s[1] = "/" THEN 1 + SlashSpan(Tail(s)) ELSE 0

\* strstr (s, "/./"): 1-based index of the first occurrence, 0 when absent
FindSlashDotSlash(s) ==
  LET hits == {i \in 1..(Len(s) - 2) :
                 s[i] = "/" /\ s[i+1] = "." /\ s[i+2] = "/"}
  IN  IF hits = {} THEN 0 ELSE CHOOSE i \in hits : \A j \in hits : i <= j

pathsep(c) == c = "/"

AssertFailed == <<"assert">>

(***************************************************************************)
(* normalize (misc.c).  The C code walks the pointer s and keeps slen      *)
(* alongside; both are carried here.                                       *)
(***************************************************************************)
RECURSIVE SkipLeading(_, _)
SkipLeading(s, slen) ==
  IF slen > 2 /\ s[1] = "." /\ pathsep(s[2])
  THEN LET k == SlashSpan(Tail0(s, 2))
       IN  SkipLeading(Tail0(s, 2 + k), slen - 2 - k)
  ELSE [s |-> s, slen |-> slen]

\* mutant: the for (;;) loop body runs once
Collapse_OnceOnly(s, slen) ==
  LET u == FindSlashDotSlash(s)
  IN  IF u = 0 THEN s
      ELSE LET n == 2 + SlashSpan(Tail0(s, u + 2))
           IN  IF ~(slen > n) THEN AssertFailed
               ELSE SubSeq(s, 1, u) \o SubSeq(s, u + n + 1, slen)

\* mutant: "./" is removed without the slash run that follows it
RECURSIVE Collapse_KeepSlashes(_, _)
Collapse_KeepSlashes(s, slen) ==
  LET u == FindSlashDotSlash(s)
  IN  IF u = 0 THEN s
      ELSE Collapse_KeepSlashes(SubSeq(s, 1, u) \o SubSeq(s, u + 3, slen),
                                slen - 2)

RECURSIVE Collapse(_, _)
Collapse(s, slen) ==
  LET u == FindSlashDotSlash(s)
  IN  IF u = 0 THEN s
      ELSE LET n == 2 + SlashSpan(Tail0(s, u + 2))
           IN  IF ~(slen > n) THEN AssertFailed
               ELSE Collapse(SubSeq(s, 1, u) \o SubSeq(s, u + n + 1, slen),
                             slen - n)

normalize(s) ==
  LET t == SkipLeading(s, Len(s))
  IN  Collapse(t.s, t.slen)


(***************************************************************************)
(* The file registry (file.c).                                             *)
(***************************************************************************)
MaxFiles == 3        \* cap on xcalloc'ed struct file
MaxMergeFiles == 2   \* the same cap where rule bodies are attached
MaxAttrs == 3        \* cap on recipes, timestamps, flags and deps attached
MaxPrereqs == 2      \* longest prerequisite list entered in one call
MaxCmds == 2         \* distinct recipe objects
MaxMtime == 2        \* largest raw timestamp a caller stores

NameA == <<"a">>
NameSlashA == <<"/", "a">>
EnterNames == {NameA, NameSlashA, DotSlash}
LookupNames == StringsUpTo(4) \ {<<>>}
FlagInputs == {"builtin", "is_target"}

NullStr == <<"NULL">>   \* the null char pointer
AssertRet == 0 - 1   \* lookup_file called with "": assert (*name != '\0')

\* xcalloc (sizeof (struct file)) followed by enter_file's three assignments;
\* extra_prereqs is what .EXTRA_PREREQS of f->variables->set expands to
NewFile(name) ==
  [name |-> name, hname |-> name, deps |-> 0, cmds |-> 0,
   double_colon |-> 0, prev |-> 0, last |-> 0, renamed |-> 0,
   last_mtime |-> 0, mtime_before_update |-> 0,
   update_status |-> "us_none", stem |-> NullStr, flags |-> {},
   variables |-> 0, extra_prereqs |-> NullStr, command_flags |-> {},
   command_state |-> 0, also_make |-> 0]

\* stem_basename is kept as its offset into stem
NewDep(name) ==
  [next |-> 0, file |-> 0, name |-> name, ignore_mtime |-> FALSE,
   need_2nd_expansion |-> FALSE, staticpattern |-> FALSE, stem |-> NullStr,
   stem_basename |-> 0, stem_dirname |-> NullStr, wait_here |-> FALSE,
   ignore_automatic_vars |-> FALSE]

FileIds == 1..Len(files)

\* hash_find_item / hash_find_slot on `files': compares hname
hash_find_item(tb, fs, key) ==
  LET m == {f \in tb : fs[f].hname = key}
  IN  IF m = {} THEN 0 ELSE CHOOSE f \in m : TRUE

\* lookup_file: the leading "./" loop
RECURSIVE LookupSkip(_)
LookupSkip(name) ==
  IF Len(name) >= 3 /\ name[1] = "." /\ pathsep(name[2])
  THEN LookupSkip(Tail0(name, 2 + SlashSpan(Tail0(name, 2))))
  ELSE name

\* lookup_file: the name the hash table is searched for
LookupKey(name) ==
  LET n == LookupSkip(name)
  IN  IF n = <<>> THEN DotSlash ELSE n

lookup_file(tb, fs, name) ==
  IF name = <<>> THEN AssertRet
  ELSE hash_find_item(tb, fs, LookupKey(name))

\* mutant: the found single-colon entry is not reused
enter_file_AlwaysNew(tb, fs, name) ==
  LET new == Len(fs) + 1
  IN  [files |-> Append(fs, [NewFile(name) EXCEPT !.last = new]),
       table |-> tb \cup {new}, ret |-> new]

\* mutant: f->last = new is missing
enter_file_LastNotUpdated(tb, fs, name) ==
  LET f == hash_find_item(tb, fs, name)
      new == Len(fs) + 1
  IN  IF f # 0 /\ fs[f].double_colon = 0
      THEN [files |-> [fs EXCEPT ![f].flags = @ \ {"builtin"}],
            table |-> tb, ret |-> f]
      ELSE IF f = 0
      THEN [files |-> Append(fs, [NewFile(name) EXCEPT !.last = new]),
            table |-> tb \cup {new}, ret |-> new]
      ELSE [files |-> [Append(fs, [NewFile(name) EXCEPT !.double_colon = f])
                         EXCEPT ![fs[f].last].prev = new],
            table |-> tb, ret |-> new]

enter_file(tb, fs, name) ==
  LET f == hash_find_item(tb, fs, name)
      new == Len(fs) + 1
  IN  IF f # 0 /\ fs[f].double_colon = 0
      THEN [files |-> [fs EXCEPT ![f].flags = @ \ {"builtin"}],
            table |-> tb, ret |-> f]
      ELSE IF f = 0
      THEN [files |-> Append(fs, [NewFile(name) EXCEPT !.last = new]),
            table |-> tb \cup {new}, ret |-> new]
      ELSE [files |-> [Append(fs, [NewFile(name) EXCEPT !.double_colon = f])
                         EXCEPT ![fs[f].last].prev = new, ![f].last = new],
            table |-> tb, ret |-> new]

\* check_renamed (filedef.h): follow the forwarding links
RECURSIVE check_renamed(_, _)
check_renamed(fs, f) ==
  IF fs[f].renamed # 0 THEN check_renamed(fs, fs[f].renamed) ELSE f

\* for (f = start; f != 0; f = f->prev) f->hname = to_hname;
RECURSIVE SetHnameChain(_, _, _)
SetHnameChain(fs, f, to_hname) ==
  IF f = 0 THEN fs
  ELSE SetHnameChain([fs EXCEPT ![f].hname = to_hname], fs[f].prev, to_hname)

\* the nodes visited by  for (; f != 0; f = f->prev)
RECURSIVE PrevChain(_, _)
PrevChain(fs, f) ==
  IF f = 0 THEN <<>> ELSE <<f>> \o PrevChain(fs, fs[f].prev)

\* the struct dep visited by  for (d = head; d != 0; d = d->next)
RECURSIVE DepList(_, _)
DepList(ds, d) ==
  IF d = 0 THEN <<>> ELSE <<d>> \o DepList(ds, ds[d].next)

RECURSIVE LastDep(_, _)
LastDep(ds, d) == IF ds[d].next = 0 THEN d ELSE LastDep(ds, ds[d].next)

\* the fields of rehash_file's MERGE list
\* mutant: intermediate is merged like the other fields
MergedFlags_WithIntermediate ==
  {"precious", "loaded", "tried_implicit", "updating", "updated",
   "is_target", "cmd_target", "phony", "is_explicit", "secondary",
   "notintermediate", "ignore_vpath", "snapped", "suffix", "intermediate"}

\* mutant: MERGE (phony) is missing
MergedFlags_NoPhony ==
  {"precious", "loaded", "tried_implicit", "updating", "updated",
   "is_target", "cmd_target", "is_explicit", "secondary",
   "notintermediate", "ignore_vpath", "snapped", "suffix"}

MergedFlags ==
  {"precious", "loaded", "tried_implicit", "updating", "updated",
   "is_target", "cmd_target", "phony", "is_explicit", "secondary",
   "notintermediate", "ignore_vpath", "snapped", "suffix"}

\* rehash_file, lines 267-295: which recipe to_file ends with
\* mutant: from_file's recipe always wins
MergeCmds_FromWins(fromc, toc) == IF fromc # 0 THEN fromc ELSE toc

MergeCmds(fromc, toc) == IF fromc # 0 /\ toc = 0 THEN fromc ELSE toc

\* rehash_file, lines 271-294: the three error() calls
MergeCmdsErrors(fromc, toc) ==
  IF fromc # 0 /\ toc # 0 /\ fromc # toc THEN 3 ELSE 0

\* rehash_file, lines 297-307: to_file->deps and the dep arena afterwards
\* mutant: from_file's deps are put first
MergeDeps_FromFirst(ds, todeps, fromdeps) ==
  IF fromdeps = 0
  THEN [head |-> todeps, deps |-> ds]
  ELSE [head |-> fromdeps,
        deps |-> [ds EXCEPT ![LastDep(ds, fromdeps)].next = todeps]]

MergeDeps(ds, todeps, fromdeps) ==
  IF todeps = 0
  THEN [head |-> fromdeps, deps |-> ds]
  ELSE [head |-> todeps,
        deps |-> [ds EXCEPT ![LastDep(ds, todeps)].next = fromdeps]]

\* rehash_file, lines 311-319: the two fatal() conditions
\* mutant: the is_target tests are missing
ColonFatal_AnyMismatch(fromf, tof) ==
  \/ tof.double_colon # 0 /\ fromf.double_colon = 0
  \/ tof.double_colon = 0 /\ fromf.double_colon # 0

ColonFatal(fromf, tof) ==
  \/ tof.double_colon # 0 /\ "is_target" \in fromf.flags
       /\ fromf.double_colon = 0
  \/ tof.double_colon = 0 /\ fromf.double_colon # 0
       /\ "is_target" \in tof.flags

Max(a, b) == IF a > b THEN a ELSE b

\* rehash_file, lines 264-356: merge FROM into the existing TO
\* mutant: from_file is not recorded in rehashed_files
MergeFiles_NotRecorded(r, from, to, to_hname) ==
  LET fs == r.files
      fromf == fs[from]
      tof == fs[to]
      md == MergeDeps(r.deps, tof.deps, fromf.deps)
      fs3 == [fs EXCEPT ![to].cmds = MergeCmds(fromf.cmds, tof.cmds),
                        ![to].deps = md.head]
      r3 == [r EXCEPT !.files = fs3, !.deps = md.deps, !.to = to,
                      !.from = from,
                      !.errors = @ + MergeCmdsErrors(fromf.cmds, tof.cmds)]
  IN  IF ColonFatal(fromf, tof)
      THEN [r3 EXCEPT !.status = "fatal", !.kind = "fatal"]
      ELSE [r3 EXCEPT
              !.kind = "merge",
              !.files =
                 [fs3 EXCEPT
                    ![to].double_colon =
                       IF tof.double_colon = 0 THEN fromf.double_colon ELSE @,
                    ![to].last_mtime = Max(fromf.last_mtime, tof.last_mtime),
                    ![to].mtime_before_update = fromf.mtime_before_update,
                    ![to].flags =
                       (tof.flags \cup (fromf.flags \cap MergedFlags))
                          \ {"builtin"},
                    ![from].renamed = to]]

MergeFiles(r, from, to, to_hname) ==
  LET fs == r.files
      fromf == fs[from]
      tof == fs[to]
      md == MergeDeps(r.deps, tof.deps, fromf.deps)
      fs3 == [fs EXCEPT ![to].cmds = MergeCmds(fromf.cmds, tof.cmds),
                        ![to].deps = md.head]
      r3 == [r EXCEPT !.files = fs3, !.deps = md.deps, !.to = to,
                      !.from = from,
                      !.errors = @ + MergeCmdsErrors(fromf.cmds, tof.cmds)]
  IN  IF ColonFatal(fromf, tof)
      THEN [r3 EXCEPT !.status = "fatal", !.kind = "fatal"]
      ELSE [r3 EXCEPT
              !.kind = "merge",
              !.files =
                 [fs3 EXCEPT
                    ![to].double_colon =
                       IF tof.double_colon = 0 THEN fromf.double_colon ELSE @,
                    ![to].last_mtime = Max(fromf.last_mtime, tof.last_mtime),
                    ![to].mtime_before_update = fromf.mtime_before_update,
                    ![to].flags =
                       (tof.flags \cup (fromf.flags \cap MergedFlags))
                          \ {"builtin"},
                    ![from].renamed = to],
              !.rehashed = Append(@, from)]

\* hash_delete (&files, item): the table without the entry found
\* mutant: the entry stays in the table
hash_delete_Keeps(tb, item) == tb

hash_delete(tb, item) == tb \ {item}

rehash_file(tb0, fs0, ds0, rh0, err0, from0, to_hname) ==
  LET fs1 == [fs0 EXCEPT ![from0].flags = @ \ {"builtin"}]
      base == [files |-> fs1, table |-> tb0, deps |-> ds0, rehashed |-> rh0,
               errors |-> err0, status |-> "running", kind |-> "same",
               from |-> from0, to |-> 0]
  IN  IF fs1[from0].hname = to_hname THEN base
      ELSE
      LET from == check_renamed(fs1, from0)
      IN  IF fs1[from].hname # fs1[from0].hname
          THEN [base EXCEPT !.status = "abort", !.kind = "abort",
                            !.from = from]
          ELSE
          LET deleted == hash_find_item(tb0, fs1, fs1[from].hname)
              tb1 == hash_delete(tb0, deleted)
          IN  IF deleted # from
              THEN [base EXCEPT !.status = "abort", !.kind = "abort",
                                !.from = from, !.table = tb1]
              ELSE
              LET to == hash_find_item(tb1, fs1, to_hname)
                  fs2 == SetHnameChain([fs1 EXCEPT ![from].hname = to_hname],
                                       fs1[from].double_colon, to_hname)
              IN  IF to = 0
                  THEN [base EXCEPT !.files = fs2, !.table = tb1 \cup {from},
                                    !.kind = "rekey", !.from = from]
                  ELSE MergeFiles([base EXCEPT !.files = fs2, !.table = tb1],
                                  from, to, to_hname)

\* rename_file's loop:  while (from_file) { name = hname; from_file = prev; }
RECURSIVE SetNameChain(_, _)
SetNameChain(fs, f) ==
  IF f = 0 THEN fs
  ELSE SetNameChain([fs EXCEPT ![f].name = fs[f].hname], fs[f].prev)

rename_file(tb0, fs0, ds0, rh0, err0, from0, to_hname) ==
  LET r == rehash_file(tb0, fs0, ds0, rh0, err0, from0, to_hname)
  IN  IF r.status # "running" THEN r
      ELSE [r EXCEPT !.files = SetNameChain(r.files, from0)]


(***************************************************************************)
(* enter_prereqs, lines 508-572: the names of a rule with a stem.          *)
(***************************************************************************)
Percent == "%"

\* find_percent: 1-based index of the first '%', 0 when there is none
find_percent(s) ==
  LET ps == {i \in 1..Len(s) : s[i] = Percent}
  IN  IF ps = {} THEN 0 ELSE CHOOSE i \in ps : \A j \in ps : i <= j

\* memmove (percent, percent+1, strlen (percent)): the '%' is cut out
CutPercent(nm, percent) ==
  SubSeq(nm, 1, percent - 1) \o Tail0(nm, percent)

\* patsubst_expand_pat (buf, text, "%", nm, ...) for a one-word text: nm with
\* its '%' replaced by the text
patsubst_expand_pat(text, nm, percent) ==
  SubSeq(nm, 1, percent - 1) \o text \o Tail0(nm, percent)

\* mutant: the dep whose name came out empty is not unlinked
RECURSIVE StemLoop_NotUnlinked(_, _, _, _)
StemLoop_NotUnlinked(ds, head, dp, dl) ==
  IF dp = 0 THEN [deps |-> ds, head |-> head, status |-> "running"]
  ELSE
  LET d == ds[dp]
  IN  IF d.stem = NullStr \/ d.stem_basename < 0
           \/ d.stem_basename > Len(d.stem)
      THEN [deps |-> ds, head |-> head, status |-> "abort"]
      ELSE
      LET dlen == d.stem_basename
          base == Tail0(d.stem, dlen)
          nm == SubSeq(d.stem_dirname, 1, dlen) \o d.name
          percent == find_percent(nm)
          out == IF base = <<>> THEN CutPercent(nm, percent)
                 ELSE patsubst_expand_pat(base, nm, percent)
      IN  IF percent = 0
          THEN StemLoop_NotUnlinked([ds EXCEPT ![dp].staticpattern = TRUE],
                                    head, d.next, dp)
          ELSE IF out = <<>>
          THEN StemLoop_NotUnlinked(ds, head, d.next, dl)
          ELSE StemLoop_NotUnlinked([ds EXCEPT ![dp].name = out,
                                               ![dp].staticpattern = TRUE],
                                    head, d.next, dp)

\* the while (dp != 0) loop; dl is the last dep kept
RECURSIVE StemLoop(_, _, _, _)
StemLoop(ds, head, dp, dl) ==
  IF dp = 0 THEN [deps |-> ds, head |-> head, status |-> "running"]
  ELSE
  LET d == ds[dp]
  IN  IF d.stem = NullStr \/ d.stem_basename < 0
           \/ d.stem_basename > Len(d.stem)
      THEN [deps |-> ds, head |-> head, status |-> "abort"]
      ELSE
      LET dlen == d.stem_basename
          base == Tail0(d.stem, dlen)
          nm == SubSeq(d.stem_dirname, 1, dlen) \o d.name
          percent == find_percent(nm)
          out == IF base = <<>> THEN CutPercent(nm, percent)
                 ELSE patsubst_expand_pat(base, nm, percent)
      IN  IF percent = 0
          THEN StemLoop([ds EXCEPT ![dp].staticpattern = TRUE],
                        head, d.next, dp)
          ELSE IF out = <<>>
          THEN IF dp = head
               THEN StemLoop(ds, d.next, d.next, dl)
               ELSE StemLoop([ds EXCEPT ![dl].next = d.next], head, d.next, dl)
          ELSE StemLoop([ds EXCEPT ![dp].name = out,
                                   ![dp].staticpattern = TRUE],
                        head, d.next, dp)

(***************************************************************************)
(* enter_prereqs, lines 574-590: resolve every dep of the list to a file.  *)
(***************************************************************************)
\* mutant: enter_file is called without asking lookup_file first
RECURSIVE EnterDeps_NoLookup(_, _, _)
EnterDeps_NoLookup(st, d, owner) ==
  IF d = 0 THEN st
  ELSE
  IF st.deps[d].need_2nd_expansion
  THEN EnterDeps_NoLookup(st, st.deps[d].next, owner)
  ELSE
  LET nm == st.deps[d].name
      e  == enter_file(st.table, st.files, nm)
      explicit == owner = 0 \/ st.files[owner].stem = NullStr
      fs == IF explicit
            THEN [e.files EXCEPT ![e.ret].flags = @ \cup {"is_explicit"}]
            ELSE e.files
      ds == [st.deps EXCEPT ![d].file = e.ret, ![d].staticpattern = FALSE,
                            ![d].name = NullStr]
  IN  EnterDeps_NoLookup([files |-> fs, table |-> e.table, deps |-> ds],
                         ds[d].next, owner)

RECURSIVE EnterDeps(_, _, _)
EnterDeps(st, d, owner) ==
  IF d = 0 THEN st
  ELSE
  IF st.deps[d].need_2nd_expansion THEN EnterDeps(st, st.deps[d].next, owner)
  ELSE
  LET nm == st.deps[d].name
      lf == lookup_file(st.table, st.files, nm)
      e  == IF lf = 0 THEN enter_file(st.table, st.files, nm)
            ELSE [files |-> st.files, table |-> st.table, ret |-> lf]
      explicit == owner = 0 \/ st.files[owner].stem = NullStr
      fs == IF explicit
            THEN [e.files EXCEPT ![e.ret].flags = @ \cup {"is_explicit"}]
            ELSE e.files
      ds == [st.deps EXCEPT ![d].file = e.ret, ![d].staticpattern = FALSE,
                            ![d].name = NullStr]
  IN  EnterDeps([files |-> fs, table |-> e.table, deps |-> ds],
                ds[d].next, owner)

\* the struct dep list parse_file_seq builds for a sequence of names
RECURSIVE AllocDeps(_, _)
AllocDeps(ds, names) ==
  IF names = <<>> THEN ds
  ELSE AllocDeps(Append(ds, [NewDep(Head(names)) EXCEPT
                               !.next = IF Len(names) = 1 THEN 0
                                        ELSE Len(ds) + 2]),
                 Tail(names))

enter_prereqs(tb, fs, ds, head, owner) ==
  IF head = 0
  THEN [files |-> fs, table |-> tb, deps |-> ds, head |-> 0,
        status |-> "running"]
  ELSE
  LET s1 == IF ds[head].stem # NullStr THEN StemLoop(ds, head, head, 0)
            ELSE [deps |-> ds, head |-> head, status |-> "running"]
  IN  IF s1.status # "running"
      THEN [files |-> fs, table |-> tb, deps |-> s1.deps, head |-> s1.head,
            status |-> s1.status]
      ELSE
      LET Entered(e) == [files |-> e.files, table |-> e.table,
                         deps |-> e.deps, head |-> s1.head,
                         status |-> "running"]
      IN  Entered(EnterDeps([files |-> fs, table |-> tb, deps |-> s1.deps],
                            s1.head, owner))


(***************************************************************************)
(* split_prereqs.  PARSE_FILE_SEQ cuts blank-separated names off the text  *)
(* and leaves the pointer at the stop character or at the end.             *)
(***************************************************************************)
MaxText == 5         \* longest text handed to split_prereqs

Blank == " "
Pipe == "|"

RECURSIVE SkipBlanks(_)
SkipBlanks(s) == IF s # <<>> /\ s[1] = Blank THEN SkipBlanks(Tail(s)) ELSE s

\* length of the name at the start of s: up to a blank, or the stop character
RECURSIVE NameLen(_, _)
NameLen(s, stop) ==
  IF s = <<>> \/ s[1] = Blank \/ (stop /\ s[1] = Pipe) THEN 0
  ELSE 1 + NameLen(Tail(s), stop)

\* PARSE_FILE_SEQ (&p, struct dep, MAP_PIPE or MAP_NUL, ...)
RECURSIVE parse_file_seq(_, _)
parse_file_seq(s, stop) ==
  LET t == SkipBlanks(s)
      n == NameLen(t, stop)
  IN  IF n = 0 THEN [names |-> <<>>, rest |-> t]
      ELSE LET r == parse_file_seq(Tail0(t, n), stop)
           IN  [names |-> <<SubSeq(t, 1, n)>> \o r.names, rest |-> r.rest]

\* for (; ood != NULL; ood = ood->next) ood->ignore_mtime = 1;
RECURSIVE MarkOrderOnly(_, _)
MarkOrderOnly(ds, d) ==
  IF d = 0 THEN ds
  ELSE MarkOrderOnly([ds EXCEPT ![d].ignore_mtime = TRUE], ds[d].next)

\* the names PARSE_FILE_SEQ returns when it is given a directory prefix
WithPrefix(names, dirname) ==
  IF dirname = NullStr THEN names
  ELSE [i \in 1..Len(names) |-> dirname \o names[i]]

\* mutant: ++p is missing, the second parse starts at the '|'
split_prereqs_PipeNotSkipped(ds, p, dirname) ==
  LET r1 == parse_file_seq(p, TRUE)
      ds1 == AllocDeps(ds, WithPrefix(r1.names, dirname))
      new == IF r1.names = <<>> THEN 0 ELSE Len(ds) + 1
  IN  IF r1.rest = <<>> THEN [deps |-> ds1, head |-> new]
      ELSE
      LET r2 == parse_file_seq(r1.rest, FALSE)
          ds2 == AllocDeps(ds1, WithPrefix(r2.names, dirname))
          ood == IF r2.names = <<>> THEN 0 ELSE Len(ds1) + 1
          ds3 == IF new = 0 THEN ds2
                 ELSE [ds2 EXCEPT ![LastDep(ds2, new)].next = ood]
      IN  [deps |-> MarkOrderOnly(ds3, ood),
           head |-> IF new = 0 THEN ood ELSE new]

split_prereqs(ds, p, dirname) ==
  LET r1 == parse_file_seq(p, TRUE)
      ds1 == AllocDeps(ds, WithPrefix(r1.names, dirname))
      new == IF r1.names = <<>> THEN 0 ELSE Len(ds) + 1
  IN  IF r1.rest = <<>> THEN [deps |-> ds1, head |-> new]
      ELSE
      LET r2 == parse_file_seq(Tail(r1.rest), FALSE)
          ds2 == AllocDeps(ds1, WithPrefix(r2.names, dirname))
          ood == IF r2.names = <<>> THEN 0 ELSE Len(ds1) + 1
          ds3 == IF new = 0 THEN ds2
                 ELSE [ds2 EXCEPT ![LastDep(ds2, new)].next = ood]
      IN  [deps |-> MarkOrderOnly(ds3, ood),
           head |-> IF new = 0 THEN ood ELSE new]

\* how much has been attached to the nodes so far
AttrCount ==
  Len(deps)
  + Cardinality({<<f, g>> \in FileIds \X FlagInputs :
                   g \in files[f].flags /\ files[f].double_colon = 0})
  + Cardinality({f \in FileIds : files[f].cmds # 0})
  + Cardinality({f \in FileIds : files[f].last_mtime # 0})

OpRec(name, kind) == [name |-> name, kind |-> kind]

\* the globals as the program starts: nothing set
NoGlobals ==
  [snapped_deps |-> FALSE, no_intermediates |-> FALSE,
   all_secondary |-> FALSE, not_parallel |-> FALSE,
   export_all_variables |-> FALSE, ignore_errors_flag |-> FALSE,
   run_silent |-> FALSE, second_expansion |-> FALSE,
   question_flag |-> FALSE, touch_flag |-> FALSE, just_print_flag |-> FALSE]

\* remove_intermediates has not run: the files that got as far as line 410,
\* the files unlink was called on, what was written to stdout and to stderr
NoReaper ==
  [sig |-> FALSE, selected |-> <<>>, unlinked |-> <<>>, results |-> <<>>,
   stdout |-> <<>>,
   stderr |-> <<>>]

(***************************************************************************)
(* Initial state: an empty registry.                                       *)
(***************************************************************************)
RegInit ==
  /\ files = <<>>
  /\ table = {}
  /\ deps = <<>>
  /\ rehashed_files = <<>>
  /\ status = "running"
  /\ errors = 0
  /\ op = OpRec("init", "none")
  /\ entered = [n \in EnterNames |-> 0]
  /\ ret = 0
  /\ stack = <<>>
  /\ rule = <<>>
  /\ xlog = <<>>
  /\ xdone = <<>>
  /\ reaper = NoReaper

\* the tokenizer and the jobserver are not in use
NoTok ==
  [buf |-> <<>>, s |-> 0, tokenlen |-> 0, status |-> 0, token |-> 0,
   calls |-> 0]
NoJs ==
  [sem |-> 0, slots |-> 0, nacquired |-> 0, nposted |-> 0, pc |-> "none",
   eintr |-> FALSE, tokens |-> 0, calls |-> 0, signals |-> 0]
OsIdle ==
  /\ tok = NoTok
  /\ js = NoJs

NormIdle ==
  /\ nin = <<>>
  /\ nout = <<>>
  /\ nout2 = <<>>
  /\ npc = "idle"

Init ==
  /\ RegInit
  /\ NormIdle
  /\ filecap = MaxFiles
  /\ tracking = TRUE
  /\ ptext = <<>>
  /\ globals = NoGlobals
  /\ OsIdle

(***************************************************************************)
(* Registry operations.                                                    *)
(***************************************************************************)
EnterFile(name) ==
  /\ status = "running"
  /\ name # <<>>
  /\ LET e == enter_file(table, files, name)
     IN  /\ Len(e.files) <= filecap
         /\ files' = e.files
         /\ table' = e.table
         /\ entered' = IF tracking THEN [entered EXCEPT ![name] = e.ret]
                       ELSE entered
         /\ op' = OpRec("enter_file",
                        IF Len(e.files) = Len(files) THEN "found"
                        ELSE IF e.table = table THEN "chained" ELSE "new")
  /\ UNCHANGED <<deps, rehashed_files, status, errors, filecap, tracking,
                 sidevars, auxvars>>

RenameFile(from0, to_hname) ==
  /\ status = "running"
  /\ from0 \in FileIds
  /\ LET r == rename_file(table, files, deps, rehashed_files, errors,
                          from0, to_hname)
     IN  /\ files' = r.files
         /\ table' = r.table
         /\ deps' = r.deps
         /\ rehashed_files' = r.rehashed
         /\ errors' = r.errors
         /\ status' = r.status
         /\ op' = OpRec("rename_file", r.kind)
  /\ entered' = [n \in EnterNames |-> 0]
  /\ UNCHANGED <<filecap, tracking, sidevars, auxvars>>

\* a double-colon rule for NAME is recorded: lookup, enter, mark the first
\* entry as its own double_colon head
RegisterDoubleColon(name) ==
  /\ status = "running"
  /\ LET lf == lookup_file(table, files, name)
     IN  IF lf # 0 /\ "is_target" \in files[lf].flags
                   /\ files[lf].double_colon = 0
         THEN /\ status' = "fatal"
              /\ op' = OpRec("double_colon", "fatal")
              /\ UNCHANGED <<files, table>>
         ELSE LET e == enter_file(table, files, name)
                  f == e.ret
              IN  /\ Len(e.files) <= filecap
                  /\ files' = [e.files EXCEPT
                                 ![f].double_colon = IF @ = 0 THEN f ELSE @,
                                 ![f].flags = @ \cup {"is_target"}]
                  /\ table' = e.table
                  /\ status' = status
                  /\ op' = OpRec("double_colon",
                                 IF Len(e.files) = Len(files) THEN "found"
                                 ELSE IF e.table = table THEN "chained"
                                 ELSE "new")
  /\ entered' = [entered EXCEPT ![name] = 0]
  /\ UNCHANGED <<deps, rehashed_files, errors, filecap, tracking, sidevars,
                 auxvars>>

\* a rule's prerequisites are entered and hung on the end of OWNER's list
EnterPrereqs(owner, names) ==
  /\ status = "running"
  /\ owner \in FileIds
  /\ AttrCount + Len(names) <= MaxAttrs
  /\ LET head == Len(deps) + 1
         r == enter_prereqs(table, files, AllocDeps(deps, names), head, owner)
         old == r.files[owner].deps
     IN  /\ Len(r.files) <= filecap
         /\ files' = [r.files EXCEPT ![owner].deps = IF old = 0 THEN head
                                                      ELSE old]
         /\ table' = r.table
         /\ deps' = IF old = 0 THEN r.deps
                    ELSE [r.deps EXCEPT ![LastDep(r.deps, old)].next = head]
         /\ op' = OpRec("attach", "none")
  /\ UNCHANGED <<rehashed_files, status, errors, tracking, entered, filecap,
                 sidevars, auxvars>>

SetFlag(f, flag) ==
  /\ status = "running"
  /\ f \in FileIds
  /\ flag \notin files[f].flags
  /\ AttrCount < MaxAttrs
  /\ files' = [files EXCEPT ![f].flags = @ \cup {flag}]
  /\ op' = OpRec("attach", "none")
  /\ UNCHANGED <<table, deps, rehashed_files, status, errors, tracking, entered,
                 filecap, sidevars, auxvars>>

SetCmds(f, c) ==
  /\ status = "running"
  /\ f \in FileIds
  /\ files[f].cmds = 0
  /\ AttrCount < MaxAttrs
  /\ files' = [files EXCEPT ![f].cmds = c]
  /\ op' = OpRec("attach", "none")
  /\ UNCHANGED <<table, deps, rehashed_files, status, errors, tracking, entered,
                 filecap, sidevars, auxvars>>

SetMtime(f, t) ==
  /\ status = "running"
  /\ f \in FileIds
  /\ files[f].last_mtime = 0
  /\ AttrCount < MaxAttrs
  /\ files' = [files EXCEPT ![f].last_mtime = t]
  /\ op' = OpRec("attach", "none")
  /\ UNCHANGED <<table, deps, rehashed_files, status, errors, tracking, entered,
                 filecap, sidevars, auxvars>>

Next ==
  \/ \E name \in EnterNames : EnterFile(name)
  \/ \E f \in FileIds, name \in EnterNames : RenameFile(f, name)
  \/ \E name \in EnterNames : RegisterDoubleColon(name)

Spec == Init /\ [][Next]_vars

(***************************************************************************)
(* The registry with rule bodies: recipes, timestamps, flags and           *)
(* prerequisite lists are attached to the nodes before they are renamed.   *)
(***************************************************************************)
MergeNames == {NameA, NameSlashA}
MergePrereqs == UNION {[1..n -> {NameA}] : n \in 1..MaxPrereqs}

NextMerge ==
  \/ \E name \in MergeNames : EnterFile(name)
  \/ \E f \in FileIds, name \in MergeNames : RenameFile(f, name)
  \/ \E name \in MergeNames : RegisterDoubleColon(name)
  \/ \E f \in FileIds, names \in MergePrereqs : EnterPrereqs(f, names)
  \/ \E f \in FileIds, flag \in FlagInputs : SetFlag(f, flag)
  \/ \E f \in FileIds, c \in 1..MaxCmds : SetCmds(f, c)
  \/ \E f \in FileIds, t \in 1..MaxMtime : SetMtime(f, t)

InitMerge ==
  /\ RegInit
  /\ NormIdle
  /\ filecap = MaxMergeFiles
  /\ tracking = FALSE
  /\ ptext = <<>>
  /\ globals = NoGlobals
  /\ OsIdle

SpecMerge == InitMerge /\ [][NextMerge]_vars

(***************************************************************************)
(* The registry with node flags: any of the flag bits of struct file is    *)
(* set on the nodes before they are renamed.                               *)
(***************************************************************************)
MaxFlagBits == 2     \* cap on flag bits set by callers, over all nodes

\* the flag bits of struct file that file.c reads or writes
FlagFields ==
  MergedFlags \cup {"intermediate", "dontcare", "low_resolution_time",
                    "builtin"}

\* the flag bits callers set in this specification
MarkInputs ==
  {"is_target", "phony", "precious", "secondary", "notintermediate",
   "dontcare", "cmd_target", "is_explicit", "builtin", "tried_implicit",
   "snapped", "low_resolution_time", "ignore_vpath", "intermediate"}

FlagCount ==
  Cardinality({<<f, g>> \in FileIds \X FlagFields : g \in files[f].flags})

MarkFile(f, flag) ==
  /\ status = "running"
  /\ f \in FileIds
  /\ flag \notin files[f].flags
  /\ FlagCount < MaxFlagBits
  /\ files' = [files EXCEPT ![f].flags = @ \cup {flag}]
  /\ op' = OpRec("attach", "none")
  /\ UNCHANGED <<table, deps, rehashed_files, status, errors, tracking, entered,
                 filecap, sidevars, auxvars>>

NextFlags ==
  \/ \E name \in MergeNames : EnterFile(name)
  \/ \E f \in FileIds, name \in MergeNames : RenameFile(f, name)
  \/ \E f \in FileIds, flag \in MarkInputs : MarkFile(f, flag)
  \/ \E f \in FileIds : SetCmds(f, 1)

SpecFlags == InitMerge /\ [][NextFlags]_vars

(***************************************************************************)
(* The registry with rules: a rule's prerequisite list, with or without a  *)
(* stem, is entered for its target.                                        *)
(***************************************************************************)
MaxCells == 3        \* longest struct dep list handed to enter_prereqs
MaxRuleFiles == 3    \* cap on xcalloc'ed struct file in this specification

NamePct == <<"%">>
NameAPct == <<"a", "%">>
NameAA == <<"a", "a">>
CellNames == {NameA, NamePct, NameAPct}

\* what a rule knows of its stem: stem, stem_basename - stem
NoStem == [stem |-> NullStr, base |-> 0]
StemInputs ==
  {[stem |-> NameA, base |-> 0], [stem |-> <<>>, base |-> 0],
   [stem |-> NameSlashA, base |-> 1]}

CellInputs == [name : CellNames, need2nd : BOOLEAN]
RuleInputs == UNION {[1..n -> CellInputs] : n \in 1..MaxCells}

\* the struct dep list of a rule: every dep carries the rule's stem
RECURSIVE AllocCells(_, _, _)
AllocCells(ds, cells, st) ==
  IF cells = <<>> THEN ds
  ELSE AllocCells(
         Append(ds, [NewDep(Head(cells).name) EXCEPT
                       !.next = IF Len(cells) = 1 THEN 0 ELSE Len(ds) + 2,
                       !.need_2nd_expansion = Head(cells).need2nd,
                       !.stem = st.stem,
                       !.stem_basename = st.base,
                       !.stem_dirname =
                          IF st.stem = NullStr THEN NullStr
                          ELSE SubSeq(st.stem, 1, st.base)]),
         Tail(cells), st)

\* a rule for OWNER (0: no file) is recorded: its stem is stored in the
\* file and in each dep, and the list goes through enter_prereqs
ReadRule(owner, cells, st) ==
  /\ status = "running"
  /\ stack = <<>>
  /\ owner \in FileIds \cup {0}
  /\ owner = 0 => st = NoStem
  /\ owner # 0 => files[owner].deps = 0 /\ files[owner].stem = NullStr
  /\ LET head == Len(deps) + 1
         fs0 == IF owner = 0 THEN files
                ELSE [files EXCEPT ![owner].stem = st.stem]
     IN  \E r \in {enter_prereqs(table, fs0, AllocCells(deps, cells, st),
                                 head, owner)} :
           /\ Len(r.files) <= filecap
           /\ files' = IF owner = 0 THEN r.files
                       ELSE [r.files EXCEPT ![owner].deps = r.head]
           /\ table' = r.table
           /\ deps' = r.deps
           /\ ret' = r.head
           /\ status' = r.status
           /\ op' = OpRec("enter_prereqs",
                          IF st = NoStem THEN "plain" ELSE "stem")
  /\ rule' = [owner |-> owner, cells |-> cells, st |-> st]
  /\ UNCHANGED <<rehashed_files, errors, tracking, entered, filecap, ptext,
                 xvars, snapvars, sidevars>>

\* the first rule that is read
RecordRule(owner, cells, st) ==
  /\ deps = <<>>
  /\ ReadRule(owner, cells, st)

RuleNodeNames == {NameA}

NextRules ==
  \/ \E name \in RuleNodeNames : EnterFile(name)
  \/ RegisterDoubleColon(NameA)
  \/ \E owner \in FileIds \cup {0}, cells \in RuleInputs,
        st \in StemInputs \cup {NoStem} : RecordRule(owner, cells, st)

InitRules ==
  /\ RegInit
  /\ NormIdle
  /\ filecap = MaxRuleFiles
  /\ tracking = FALSE
  /\ ptext = <<>>
  /\ globals = NoGlobals
  /\ OsIdle

SpecRules == InitRules /\ [][NextRules]_vars

(***************************************************************************)
(* expand_deps.  The call is suspended wherever it calls                   *)
(* expand_string_for_file, and resumed with the text that call returns;    *)
(* `stack' holds the suspended calls.  A frame records f, dp (0: &f->deps, *)
(* d: &d->next), the dep d being expanded, the captured next, and, inside  *)
(* second_expand_pattern_dep, the words still to do and order_only.        *)
(***************************************************************************)
MaxDepth == 2        \* cap on nested expand_deps calls

Dollar == "$"

\* substitute_stem: the first '%' of every token becomes $*, ($*), $(*F) or
\* ($(*F)); buf is the index the search for '%' started from
RECURSIVE SubstituteFrom(_, _, _, _)
SubstituteFrom(s, buf, dirname, dir_name) ==
  LET ps == {i \in buf..Len(s) : s[i] = Percent}
  IN  IF ps = {} THEN [text |-> s, dir_name |-> dir_name]
      ELSE
      LET i == CHOOSE k \in ps : \A j \in ps : k <= j
          new == IF i > buf /\ s[i - 1] = Dollar
                 THEN IF dirname # <<>>
                      THEN <<"(", "$", "(", "*", "F", ")", ")">>
                      ELSE <<"(", "$", "*", ")">>
                 ELSE IF dirname # <<>>
                      THEN <<"$", "(", "*", "F", ")">>
                      ELSE <<"$", "*">>
          s2 == SubSeq(s, 1, i - 1) \o new \o Tail0(s, i)
          after == i + Len(new)
          stops == {j \in after..Len(s2) : s2[j] = Blank}
          tokend == IF stops = {} THEN Len(s2) + 1
                    ELSE CHOOSE k \in stops : \A j \in stops : k <= j
      IN  SubstituteFrom(s2, tokend, dirname, dirname)

substitute_stem(input, dirname) == SubstituteFrom(input, 1, dirname, NullStr)

\* get_next_word: the blank-separated words of a name
get_next_word(name) == parse_file_seq(name, FALSE).names

\* *dp = val
ApplyDp(st, f, dp, val) ==
  IF dp = 0 THEN [st EXCEPT !.files[f].deps = val]
  ELSE [st EXCEPT !.deps[dp].next = val]

\* mutant: is_explicit is set whatever dstem is
RECURSIVE EnterNew_AlwaysExplicit(_, _, _, _)
EnterNew_AlwaysExplicit(st, d, dstem, order_only) ==
  LET nm == st.deps[d].name
      lf == lookup_file(st.table, st.files, nm)
      e  == IF lf = 0 THEN enter_file(st.table, st.files, nm)
            ELSE [files |-> st.files, table |-> st.table, ret |-> lf]
      fs == [e.files EXCEPT ![e.ret].flags = @ \cup {"is_explicit"}]
      ds == [st.deps EXCEPT ![d].file = e.ret, ![d].name = NullStr,
                            ![d].stem = dstem,
                            ![d].ignore_mtime = IF order_only THEN TRUE ELSE @]
      st1 == [files |-> fs, table |-> e.table, deps |-> ds]
  IN  IF ds[d].next = 0 THEN [st |-> st1, last |-> d]
      ELSE EnterNew_AlwaysExplicit(st1, ds[d].next, dstem, order_only)

\* second_expand_dep, lines 761-774: enter the new deps; returns the state
\* and the last dep of the list
RECURSIVE EnterNew(_, _, _, _)
EnterNew(st, d, dstem, order_only) ==
  LET nm == st.deps[d].name
      lf == lookup_file(st.table, st.files, nm)
      e  == IF lf = 0 THEN enter_file(st.table, st.files, nm)
            ELSE [files |-> st.files, table |-> st.table, ret |-> lf]
      fs == IF dstem = NullStr
            THEN [e.files EXCEPT ![e.ret].flags = @ \cup {"is_explicit"}]
            ELSE e.files
      ds == [st.deps EXCEPT ![d].file = e.ret, ![d].name = NullStr,
                            ![d].stem = dstem,
                            ![d].ignore_mtime = IF order_only THEN TRUE ELSE @]
      st1 == [files |-> fs, table |-> e.table, deps |-> ds]
  IN  IF ds[d].next = 0 THEN [st |-> st1, last |-> d]
      ELSE EnterNew(st1, ds[d].next, dstem, order_only)

\* mutant: a blank expansion leaves d in the list, dp is moved past it
second_expand_dep_KeepsBlank(st, f, dp, d, text, order_only, dirname) ==
  LET dstem == st.deps[d].stem
      sp == split_prereqs(st.deps, text, dirname)
  IN  IF sp.head = 0 THEN [st |-> ApplyDp(st, f, dp, d), dp |-> d]
      ELSE LET st1 == ApplyDp([st EXCEPT !.deps = sp.deps], f, dp, sp.head)
               r == EnterNew(st1, sp.head, dstem, order_only)
           IN  [st |-> r.st, dp |-> r.last]

\* mutant: the new list is hung on f->deps whatever dp is
second_expand_dep_AtHead(st, f, dp, d, text, order_only, dirname) ==
  LET dstem == st.deps[d].stem
      sp == split_prereqs(st.deps, text, dirname)
  IN  IF sp.head = 0
      THEN [st |-> ApplyDp(st, f, dp, st.deps[d].next), dp |-> dp]
      ELSE LET st1 == ApplyDp([st EXCEPT !.deps = sp.deps], f, 0, sp.head)
               r == EnterNew(st1, sp.head, dstem, order_only)
           IN  [st |-> r.st, dp |-> r.last]

\* second_expand_dep once expand_string_for_file has returned TEXT; returns
\* the state and the new dp
second_expand_dep(st, f, dp, d, text, order_only, dirname) ==
  LET dstem == st.deps[d].stem
      Entered(r) == [st |-> r.st, dp |-> r.last]
      Splice(sp) ==
        IF sp.head = 0
        THEN [st |-> ApplyDp(st, f, dp, st.deps[d].next), dp |-> dp]
        ELSE Entered(EnterNew(ApplyDp([st EXCEPT !.deps = sp.deps], f, dp,
                                      sp.head),
                              sp.head, dstem, order_only))
  IN  Splice(split_prereqs(st.deps, text, dirname))

\* mutant: a '|' word is handed on like any other word
NextWord_PipeIsWord(words, order_only) ==
  [words |-> words, order_only |-> order_only]

\* second_expand_pattern_dep: skip to the next word that is expanded
RECURSIVE NextWord(_, _)
NextWord(words, order_only) ==
  IF words # <<>> /\ ~order_only /\ Head(words) = <<Pipe>>
  THEN NextWord(Tail(words), TRUE)
  ELSE [words |-> words, order_only |-> order_only]

NoFrame == <<>>

\* second_expand_pattern_dep, lines 676-677: the number of '%' of the name
nperc(name) == Cardinality({i \in 1..Len(name) : name[i] = Percent})

\* the frame of a call suspended in the expansion of the first word of WORDS
WordFrame(st, f, dp, d, next, words, order_only) ==
  LET sub == substitute_stem(Head(words), st.deps[d].stem_dirname)
  IN  [f |-> f, dp |-> dp, d |-> d, next |-> next, mode |-> "word",
       words |-> words, order_only |-> order_only, arg |-> sub.text,
       dirname |-> sub.dir_name]

\* expand_deps, the while (d != 0) loop up to the next expansion
RECURSIVE Walk(_, _, _, _)
Walk(st, f, dp, d) ==
  IF d = 0 THEN [st |-> st, frame |-> NoFrame]
  ELSE
  LET c == st.deps[d]
  IN  IF c.name = NullStr \/ ~c.need_2nd_expansion
      THEN Walk(st, f, d, c.next)
      ELSE IF c.staticpattern /\ nperc(c.name) > 0
      THEN LET w == NextWord(get_next_word(c.name), FALSE)
           IN  IF w.words = <<>>
               THEN Walk(ApplyDp(st, f, dp, c.next), f, dp, c.next)
               ELSE [st |-> st,
                     frame |-> WordFrame(st, f, dp, d, c.next, w.words,
                                         w.order_only)]
      ELSE [st |-> st,
            frame |-> [f |-> f, dp |-> dp, d |-> d, next |-> c.next,
                       mode |-> "dep", words |-> <<>>, order_only |-> FALSE,
                       arg |-> c.name, dirname |-> NullStr]]

\* the suspended call goes on with the TEXT of the expansion
Resume(st, fr, text) ==
  LET w == IF fr.mode = "word" THEN NextWord(Tail(fr.words), fr.order_only)
           ELSE [words |-> <<>>, order_only |-> FALSE]
      GoOn(r) ==
        IF w.words # <<>>
        THEN [st |-> r.st,
              frame |-> WordFrame(r.st, fr.f, r.dp, fr.d, fr.next, w.words,
                                  w.order_only)]
        ELSE Walk(ApplyDp(r.st, fr.f, r.dp, fr.next), fr.f, r.dp, fr.next)
  IN  GoOn(second_expand_dep(st, fr.f, fr.dp, fr.d, text, fr.order_only,
                             fr.dirname))

\* mutant: f->snapped = 1 is missing
expand_deps_begin_NotMarked(fs, f) ==
  [files |-> fs, go |-> "snapped" \notin fs[f].flags]

\* expand_deps, lines 604-606
expand_deps_begin(fs, f) ==
  IF "snapped" \in fs[f].flags THEN [files |-> fs, go |-> FALSE]
  ELSE [files |-> [fs EXCEPT ![f].flags = @ \cup {"snapped"}], go |-> TRUE]

\* the dep list of f as expand_deps finds it: the deps and their contents
OrigList(ds, fs, f) ==
  LET l == DepList(ds, fs[f].deps)
  IN  [i \in 1..Len(l) |-> [id |-> l[i], cell |-> ds[l[i]]]]

\* mutant: f, dp, d and next are static, a nested call overwrites them
ExpandCall_StaticLocals(f) ==
  /\ status = "running"
  /\ f \in FileIds
  /\ Len(stack) < MaxDepth
  /\ \E b \in {expand_deps_begin(files, f)} :
     \E w \in {Walk([files |-> b.files, table |-> table, deps |-> deps],
                    f, 0, b.files[f].deps)} :
         IF ~b.go
         THEN /\ files' = b.files
              /\ UNCHANGED <<table, deps, stack, xdone>>
              /\ op' = OpRec("expand_deps", "skipped")
         ELSE /\ files' = w.st.files
              /\ table' = w.st.table
              /\ deps' = w.st.deps
              /\ IF w.frame = NoFrame
                 THEN /\ stack' = stack
                      /\ xdone' = [f |-> f, orig |-> OrigList(deps, files, f)]
                      /\ op' = OpRec("expand_deps", "done")
                 ELSE /\ stack' = <<[fr |-> w.frame,
                                     orig |-> OrigList(deps, files, f)]>>
                                   \o (IF stack = <<>> THEN stack
                                       ELSE Tail(stack))
                      /\ xdone' = xdone
                      /\ op' = OpRec("expand_deps", "suspended")
  /\ UNCHANGED <<status, rehashed_files, errors, tracking, entered, filecap,
                 ptext, ret, rule, xlog, snapvars, sidevars>>

\* expand_deps (f) is called, by the program or from inside an expansion
\* that is under way, and runs up to its first expand_string_for_file
ExpandCall(f) ==
  /\ status = "running"
  /\ f \in FileIds
  /\ Len(stack) < MaxDepth
  /\ \E b \in {expand_deps_begin(files, f)} :
     \E w \in {Walk([files |-> b.files, table |-> table, deps |-> deps],
                    f, 0, b.files[f].deps)} :
         IF ~b.go
         THEN /\ files' = b.files
              /\ UNCHANGED <<table, deps, stack, xdone>>
              /\ op' = OpRec("expand_deps", "skipped")
         ELSE /\ files' = w.st.files
              /\ table' = w.st.table
              /\ deps' = w.st.deps
              /\ IF w.frame = NoFrame
                 THEN /\ stack' = stack
                      /\ xdone' = [f |-> f, orig |-> OrigList(deps, files, f)]
                      /\ op' = OpRec("expand_deps", "done")
                 ELSE /\ stack' = <<[fr |-> w.frame,
                                     orig |-> OrigList(deps, files, f)]>>
                                   \o stack
                      /\ xdone' = xdone
                      /\ op' = OpRec("expand_deps", "suspended")
  /\ UNCHANGED <<status, rehashed_files, errors, tracking, entered, filecap,
                 ptext, ret, rule, xlog, snapvars, sidevars>>

\* expand_string_for_file: a text without '$' refers to nothing and is
\* returned as it is, any other text yields what its references yield
expand_string_for_file(arg, yield) ==
  IF \E i \in 1..Len(arg) : arg[i] = Dollar THEN yield ELSE arg

\* expand_string_for_file returns to the innermost suspended call, which
\* runs up to its next expand_string_for_file or to its end
ExpandResume(yield) ==
  /\ status = "running"
  /\ stack # <<>>
  /\ LET top == stack[1]
         text == expand_string_for_file(top.fr.arg, yield)
     IN  \E r \in {Resume([files |-> files, table |-> table, deps |-> deps],
                            top.fr, text)} :
         /\ Len(r.st.files) <= filecap
         /\ files' = r.st.files
         /\ table' = r.st.table
         /\ deps' = r.st.deps
         /\ xlog' = Append(xlog, [f |-> top.fr.f, d |-> top.fr.d,
                                  arg |-> top.fr.arg, text |-> text,
                                  order_only |-> top.fr.order_only,
                                  dirname |-> top.fr.dirname])
         /\ IF r.frame = NoFrame
            THEN /\ stack' = Tail(stack)
                 /\ xdone' = [f |-> top.fr.f, orig |-> top.orig]
                 /\ op' = OpRec("second_expand_dep", "done")
            ELSE /\ stack' = <<[fr |-> r.frame, orig |-> top.orig]>>
                              \o Tail(stack)
                 /\ xdone' = xdone
                 /\ op' = OpRec("second_expand_dep", "suspended")
  /\ UNCHANGED <<status, rehashed_files, errors, tracking, entered, filecap,
                 ptext, ret, rule, snapvars, sidevars>>

(***************************************************************************)
(* The registry with second expansion: rules are recorded, expand_deps is  *)
(* called on any node at any time, expansions return any of ExpandTexts.   *)
(***************************************************************************)
MaxExpandFiles == 4  \* cap on xcalloc'ed struct file in this specification

NamePctPct == <<"%", "%">>
NameVar == <<"$", "x">>
TextB == <<"b">>
TextBA == <<"b", " ", "a">>
TextPipeB == <<"|", "b">>
ExpandTexts == {<<>>, TextB, TextBA, TextPipeB}

ExpandCells == [name : {NameA, NameVar, NamePctPct}, need2nd : BOOLEAN]
ExpandRules == UNION {[1..n -> ExpandCells] : n \in 1..MaxCells}
ExpandStems == {NoStem, [stem |-> NameSlashA, base |-> 1]}

NextExpand ==
  \/ EnterFile(NameA)
  \/ \E owner \in FileIds, cells \in ExpandRules, st \in ExpandStems :
        RecordRule(owner, cells, st)
  \/ \E f \in FileIds : ExpandCall(f)
  \/ \E text \in ExpandTexts : ExpandResume(text)

InitExpand ==
  /\ RegInit
  /\ NormIdle
  /\ filecap = MaxExpandFiles
  /\ tracking = FALSE
  /\ ptext = <<>>
  /\ globals = NoGlobals
  /\ OsIdle

SpecExpand == InitExpand /\ [][NextExpand]_vars

(***************************************************************************)
(* Second expansion of static pattern rules: the templates have several    *)
(* words, '|' words among them, and a '%' left for substitute_stem.        *)
(***************************************************************************)
MaxWordFiles == 5    \* cap on xcalloc'ed struct file in this specification

NameWordPipeWord == <<"%", " ", "|", " ", "%">>
NameWordWord == <<"%", "%", " ", "%">>
NamePipeWordPipeWord == <<"|", " ", "%", " ", "|", " ", "%">>
WordNames == {NameWordPipeWord, NameWordWord, NamePipeWordPipeWord}
WordStems == {[stem |-> NameSlashA, base |-> 1], [stem |-> NameA, base |-> 0]}

ReadyCell == [name |-> NameA, need2nd |-> FALSE]
WordRules ==
  UNION {{<<[name |-> n, need2nd |-> TRUE]>>,
          <<[name |-> n, need2nd |-> TRUE], ReadyCell>>,
          <<ReadyCell, [name |-> n, need2nd |-> TRUE]>>} : n \in WordNames}

NextWords ==
  \/ EnterFile(NameA)
  \/ \E owner \in FileIds, cells \in WordRules, st \in WordStems :
        RecordRule(owner, cells, st)
  \/ \E f \in FileIds : ExpandCall(f)
  \/ \E text \in ExpandTexts : ExpandResume(text)

InitWords ==
  /\ RegInit
  /\ NormIdle
  /\ filecap = MaxWordFiles
  /\ tracking = FALSE
  /\ ptext = <<>>
  /\ globals = NoGlobals
  /\ OsIdle

SpecWords == InitWords /\ [][NextWords]_vars

(***************************************************************************)
(* Second expansion and stems: a node can get its stem from another rule   *)
(* than the one a dep comes from, so f->stem and d->stem can differ.       *)
(***************************************************************************)
MaxStemFiles == 3    \* cap on xcalloc'ed struct file in this specification

\* a pattern is matched for f: its stem is stored in f->stem
SetStem(f, stem) ==
  /\ status = "running"
  /\ stack = <<>>
  /\ f \in FileIds
  /\ files[f].stem = NullStr
  /\ files' = [files EXCEPT ![f].stem = stem]
  /\ op' = OpRec("set_stem", "stem")
  /\ UNCHANGED <<status, table, deps, rehashed_files, errors, tracking,
                 entered, filecap, sidevars, auxvars>>

VarCell == [name |-> NameVar, need2nd |-> TRUE]
StemRules == {<<VarCell>>, <<ReadyCell, VarCell>>}
StemChoices == {NoStem, [stem |-> NameA, base |-> 0]}

NextStems ==
  \/ EnterFile(NameA)
  \/ RegisterDoubleColon(NameA)
  \/ \E owner \in FileIds, cells \in StemRules, st \in StemChoices :
        RecordRule(owner, cells, st)
  \/ \E f \in FileIds : SetStem(f, NameA)
  \/ \E f \in FileIds : ExpandCall(f)
  \/ \E text \in ExpandTexts : ExpandResume(text)

InitStems ==
  /\ RegInit
  /\ NormIdle
  /\ filecap = MaxStemFiles
  /\ tracking = FALSE
  /\ ptext = <<>>
  /\ globals = NoGlobals
  /\ OsIdle

SpecStems == InitStems /\ [][NextStems]_vars

(***************************************************************************)
(* Nested second expansion: two nodes have rules, and while a dep of one   *)
(* is expanded the expansion enters files and calls expand_deps.           *)
(***************************************************************************)
MaxNestFiles == 3    \* cap on xcalloc'ed struct file in this specification
MaxNestCells == 3    \* cap on the struct dep of the rules that are read

NameB == <<"b">>
NestRules == {<<VarCell>>, <<VarCell, VarCell>>, <<ReadyCell, VarCell>>}
NestTexts == {<<>>, TextB, TextBA}

NextNest ==
  \/ \E name \in {NameA, NameB} : EnterFile(name)
  \/ \E owner \in FileIds, cells \in NestRules :
        /\ Len(deps) + Len(cells) <= MaxNestCells
        /\ ReadRule(owner, cells, NoStem)
  \/ \E f \in FileIds : ExpandCall(f)
  \/ \E text \in NestTexts : ExpandResume(text)

InitNest ==
  /\ RegInit
  /\ NormIdle
  /\ filecap = MaxNestFiles
  /\ tracking = FALSE
  /\ ptext = <<>>
  /\ globals = NoGlobals
  /\ OsIdle

SpecNest == InitNest /\ [][NextNest]_vars

(***************************************************************************)
(* snap_deps and snap_file.  The state they work on is a record st of      *)
(* files, table, deps, the globals g and status; fatal() ends the program, *)
(* so a step is skipped once status is no longer "running".                *)
(***************************************************************************)
NamePRECIOUS == <<".", "P", "R", "E", "C", "I", "O", "U", "S">>
NameLOW_RESOLUTION_TIME ==
  <<".", "L", "O", "W", "_", "R", "E", "S", "O", "L",
    "U", "T", "I", "O", "N", "_", "T", "I", "M", "E">>
NamePHONY == <<".", "P", "H", "O", "N", "Y">>
NameNOTINTERMEDIATE ==
  <<".", "N", "O", "T", "I", "N", "T", "E",
    "R", "M", "E", "D", "I", "A", "T", "E">>
NameINTERMEDIATE ==
  <<".", "I", "N", "T", "E", "R",
    "M", "E", "D", "I", "A", "T", "E">>
NameSECONDARY == <<".", "S", "E", "C", "O", "N", "D", "A", "R", "Y">>
NameEXPORT_ALL_VARIABLES ==
  <<".", "E", "X", "P", "O", "R", "T", "_", "A", "L",
    "L", "_", "V", "A", "R", "I", "A", "B", "L", "E", "S">>
NameIGNORE == <<".", "I", "G", "N", "O", "R", "E">>
NameSILENT == <<".", "S", "I", "L", "E", "N", "T">>
NameNOTPARALLEL ==
  <<".", "N", "O", "T", "P", "A",
    "R", "A", "L", "L", "E", "L">>

NONEXISTENT_MTIME == 1
COMMANDS_NOERROR == "COMMANDS_NOERROR"
COMMANDS_SILENT == "COMMANDS_SILENT"

\* the files visited by  for (d = head; d; d = d->next)
\*                         for (f2 = d->file; f2; f2 = f2->prev)
RECURSIVE DepTargets(_, _, _)
DepTargets(fs, ds, d) ==
  IF d = 0 THEN <<>>
  ELSE PrevChain(fs, ds[d].file) \o DepTargets(fs, ds, ds[d].next)

\* the same under  for (f = start; f; f = f->prev)
RECURSIVE ChainTargets(_, _, _)
ChainTargets(fs, ds, f) ==
  IF f = 0 THEN <<>>
  ELSE DepTargets(fs, ds, fs[f].deps) \o ChainTargets(fs, ds, fs[f].prev)

SeqRange(s) == {s[i] : i \in 1..Len(s)}

\* f2->flag = 1 for every flag of FLAGS and every f2 of TARGETS
SetFlags(fs, targets, flags) ==
  [f \in 1..Len(fs) |->
     IF f \in SeqRange(targets) THEN [fs[f] EXCEPT !.flags = @ \cup flags]
     ELSE fs[f]]

Special(st, name) == lookup_file(st.table, st.files, name)

\* lines 943-946 and 948-951
MarkSpecial(st, name, flag) ==
  [st EXCEPT !.files = SetFlags(@, ChainTargets(st.files, st.deps,
                                                Special(st, name)), {flag})]

\* lines 953-962
MarkPhony(st) ==
  LET targets == SeqRange(ChainTargets(st.files, st.deps,
                                       Special(st, NamePHONY)))
  IN  [st EXCEPT !.files =
         [f \in 1..Len(@) |->
            IF f \in targets
            THEN [@[f] EXCEPT !.flags = @ \cup {"phony", "is_target"},
                              !.last_mtime = NONEXISTENT_MTIME,
                              !.mtime_before_update = NONEXISTENT_MTIME]
            ELSE @[f]]]

\* lines 964-972
RECURSIVE MarkNotIntermediate(_, _)
MarkNotIntermediate(st, f) ==
  IF f = 0 THEN st
  ELSE MarkNotIntermediate(
         IF st.files[f].deps # 0
         THEN [st EXCEPT !.files =
                 SetFlags(@, DepTargets(st.files, st.deps, st.files[f].deps),
                          {"notintermediate"})]
         ELSE [st EXCEPT !.g.no_intermediates = TRUE],
         st.files[f].prev)

\* mutant: the notintermediate test is missing
RECURSIVE MarkUnlessNot_NoTest(_, _, _)
MarkUnlessNot_NoTest(st, targets, flags) ==
  IF targets = <<>> THEN st
  ELSE MarkUnlessNot_NoTest(
         [st EXCEPT !.files[Head(targets)].flags = @ \cup flags],
         Tail(targets), flags)

\* lines 984-989 and 999-1004: fatal() at the first file that is
\* notintermediate, the files before it are marked
RECURSIVE MarkUnlessNot(_, _, _)
MarkUnlessNot(st, targets, flags) ==
  IF targets = <<>> THEN st
  ELSE IF "notintermediate" \in st.files[Head(targets)].flags
  THEN [st EXCEPT !.status = "fatal"]
  ELSE MarkUnlessNot([st EXCEPT !.files[Head(targets)].flags = @ \cup flags],
                     Tail(targets), flags)

\* lines 980-989
MarkIntermediate(st) ==
  MarkUnlessNot(st, ChainTargets(st.files, st.deps,
                                 Special(st, NameINTERMEDIATE)),
                {"intermediate"})

\* lines 994-1007
RECURSIVE MarkSecondary(_, _)
MarkSecondary(st, f) ==
  IF f = 0 \/ st.status # "running" THEN st
  ELSE MarkSecondary(
         IF st.files[f].deps # 0
         THEN MarkUnlessNot(st, DepTargets(st.files, st.deps,
                                           st.files[f].deps),
                            {"intermediate", "secondary"})
         ELSE [st EXCEPT !.g.all_secondary = TRUE],
         st.files[f].prev)

\* lines 1009-1011
ExcludeBoth(st) ==
  IF st.g.no_intermediates /\ st.g.all_secondary
  THEN [st EXCEPT !.status = "fatal"]
  ELSE st

IsTarget(st, f) == f # 0 /\ "is_target" \in st.files[f].flags

\* lines 1013-1015
ExportAll(st) ==
  IF IsTarget(st, Special(st, NameEXPORT_ALL_VARIABLES))
  THEN [st EXCEPT !.g.export_all_variables = TRUE]
  ELSE st

\* lines 1017-1026 and 1028-1037
CommandFlags(st, name, global, bit) ==
  LET f == Special(st, name)
  IN  IF ~IsTarget(st, f) THEN st
      ELSE IF st.files[f].deps = 0 THEN [st EXCEPT !.g[global] = TRUE]
      ELSE LET targets == SeqRange(DepTargets(st.files, st.deps,
                                              st.files[f].deps))
           IN  [st EXCEPT !.files =
                  [t \in 1..Len(@) |->
                     IF t \in targets
                     THEN [@[t] EXCEPT !.command_flags = @ \cup {bit}]
                     ELSE @[t]]]

\* the deps visited by  for (d2 = f2->deps->next; d2; d2 = d2->next)
AfterFirst(st, f2) ==
  IF st.files[f2].deps = 0 THEN {}
  ELSE SeqRange(Tail(DepList(st.deps, st.files[f2].deps)))

\* lines 1039-1053
MarkWaits(st) ==
  LET f == Special(st, NameNOTPARALLEL)
  IN  IF ~IsTarget(st, f) THEN st
      ELSE IF st.files[f].deps = 0 THEN [st EXCEPT !.g.not_parallel = TRUE]
      ELSE LET targets == SeqRange(DepTargets(st.files, st.deps,
                                              st.files[f].deps))
               waits == UNION {AfterFirst(st, f2) : f2 \in targets}
           IN  [st EXCEPT !.deps =
                  [d \in 1..Len(@) |->
                     IF d \in waits THEN [@[d] EXCEPT !.wait_here = TRUE]
                     ELSE @[d]]]

\* expand_extra_prereqs, lines 852-859
RECURSIVE EnterExtra(_, _)
EnterExtra(st, d) ==
  IF d = 0 THEN st
  ELSE
  LET nm == st.deps[d].name
      lf == lookup_file(st.table, st.files, nm)
      e  == IF lf = 0 THEN enter_file(st.table, st.files, nm)
            ELSE [files |-> st.files, table |-> st.table, ret |-> lf]
  IN  EnterExtra([st EXCEPT !.files = e.files, !.table = e.table,
                            !.deps[d].file = e.ret,
                            !.deps[d].name = NullStr,
                            !.deps[d].ignore_automatic_vars = TRUE],
                 st.deps[d].next)

\* expand_extra_prereqs: EXTRA is the expanded value of the variable,
\* NullStr when there is no such variable; returns the state and the list
expand_extra_prereqs(st, extra) ==
  LET Enter(sp) == [st |-> EnterExtra([st EXCEPT !.deps = sp.deps], sp.head),
                    prereqs |-> sp.head]
  IN  IF extra = NullStr THEN [st |-> st, prereqs |-> 0]
      ELSE Enter(split_prereqs(st.deps, extra, NullStr))

\* copy_dep_chain: a copy of every struct dep of the list, in order
RECURSIVE CopyCells(_, _)
CopyCells(ds, l) ==
  IF l = <<>> THEN ds
  ELSE CopyCells(Append(ds, [ds[Head(l)] EXCEPT
                               !.next = IF Len(l) = 1 THEN 0
                                        ELSE Len(ds) + 2]),
                 Tail(l))

copy_dep_chain(st, d) ==
  IF d = 0 THEN [st |-> st, prereqs |-> 0]
  ELSE [st |-> [st EXCEPT !.deps = CopyCells(@, DepList(st.deps, d))],
        prereqs |-> Len(st.deps) + 1]

\* snap_file, lines 894-900
RECURSIVE NeedSecond(_, _)
NeedSecond(st, d) ==
  IF d = 0 THEN st
  ELSE NeedSecond(
         [st EXCEPT !.deps[d].name =
                      IF @ = NullStr THEN st.files[st.deps[d].file].name
                      ELSE @,
                    !.deps[d].need_2nd_expansion = TRUE],
         st.deps[d].next)

\* dep_name (dep.h)
dep_name(st, d) ==
  IF st.deps[d].name # NullStr THEN st.deps[d].name
  ELSE st.files[st.deps[d].file].name

\* mutant: only the circular dep and the deps after it are thrown away
AddPrereqs_KeepFirst(st, f, prereqs) ==
  LET l == IF prereqs = 0 THEN <<>> ELSE DepList(st.deps, prereqs)
      hit == {i \in 1..Len(l) : dep_name(st, l[i]) = st.files[f].name}
      first == IF hit = {} THEN Len(l) + 1
               ELSE CHOOSE i \in hit : \A j \in hit : i <= j
      cut == IF first > 1 /\ first <= Len(l)
             THEN [st EXCEPT !.deps[l[first - 1]].next = 0]
             ELSE st
  IN  IF first = 1 THEN st
      ELSE IF st.files[f].deps = 0 THEN [cut EXCEPT !.files[f].deps = prereqs]
      ELSE [cut EXCEPT !.deps[LastDep(st.deps, st.files[f].deps)].next =
                         prereqs]

\* snap_file, lines 905-924
AddPrereqs(st, f, prereqs) ==
  IF prereqs = 0 THEN st
  ELSE IF \E d \in SeqRange(DepList(st.deps, prereqs)) :
            dep_name(st, d) = st.files[f].name
  THEN st
  ELSE IF st.files[f].deps = 0 THEN [st EXCEPT !.files[f].deps = prereqs]
  ELSE [st EXCEPT !.deps[LastDep(st.deps, st.files[f].deps)].next = prereqs]

\* mutant: the defaults are applied whatever the flags of the file
Defaults_Overriding(st, f) ==
  LET s1 == IF st.g.all_secondary
            THEN [st EXCEPT !.files[f].flags = @ \cup {"intermediate"}]
            ELSE st
  IN  IF s1.g.no_intermediates
      THEN [s1 EXCEPT !.files[f].flags = @ \cup {"notintermediate"}]
      ELSE s1

\* snap_file, lines 877-887
Defaults(st, f) ==
  LET s1 == IF st.g.all_secondary /\ "notintermediate" \notin st.files[f].flags
            THEN [st EXCEPT !.files[f].flags = @ \cup {"intermediate"}]
            ELSE st
  IN  IF /\ s1.g.no_intermediates
         /\ "intermediate" \notin s1.files[f].flags
         /\ "secondary" \notin s1.files[f].flags
      THEN [s1 EXCEPT !.files[f].flags = @ \cup {"notintermediate"}]
      ELSE s1

\* snap_file, lines 873-874
ClearUpdating(st, f) ==
  IF ~st.g.second_expansion
  THEN [st EXCEPT !.files[f].flags = @ \ {"updating"}]
  ELSE st

\* snap_file, lines 889-903; ARG is the list made of the global
\* .EXTRA_PREREQS; returns the state and the prereqs to be added to f
FilePrereqs(st, f, arg) ==
  LET Need(e) == IF st.g.second_expansion
                 THEN [st |-> NeedSecond(e.st, e.prereqs),
                       prereqs |-> e.prereqs]
                 ELSE e
  IN  IF st.files[f].variables # 0
      THEN Need(expand_extra_prereqs(st, st.files[f].extra_prereqs))
      ELSE IF "is_target" \in st.files[f].flags
      THEN copy_dep_chain(st, arg)
      ELSE [st |-> st, prereqs |-> 0]

snap_file(st, f, arg) ==
  LET Add(x) == AddPrereqs(x.st, f, x.prereqs)
  IN  Add(FilePrereqs(Defaults(ClearUpdating(st, f), f), f, arg))

\* hash_map_arg (&files, snap_file, prereqs) over the files of TODO, the
\* lowest first
RECURSIVE MapSnapFile(_, _, _)
MapSnapFile(st, todo, arg) ==
  IF todo = {} THEN st
  ELSE LET f == CHOOSE x \in todo : \A y \in todo : x <= y
       IN  MapSnapFile(snap_file(st, f, arg), todo \ {f}, arg)

\* lines 1055-1062.  Files that snap_file enters while the table is being
\* walked are in slots the walk has passed or has yet to come to: whether
\* they are visited depends on the hash function, VISIT_NEW says which.
SnapFiles(st, extra, visit_new) ==
  LET Newer(e, s1) ==
        IF visit_new THEN MapSnapFile(s1, s1.table \ e.st.table, e.prereqs)
        ELSE s1
      Map(e) == Newer(e, MapSnapFile(e.st, e.st.table, e.prereqs))
  IN  Map(expand_extra_prereqs(st, extra))

\* the steps of snap_deps in the order of the code
SnapSteps == 13

SnapStep(st, i, extra, visit_new) ==
  CASE i = 1 -> [st EXCEPT !.g.snapped_deps = TRUE]
    [] i = 2 -> MarkSpecial(st, NamePRECIOUS, "precious")
    [] i = 3 -> MarkSpecial(st, NameLOW_RESOLUTION_TIME,
                            "low_resolution_time")
    [] i = 4 -> MarkPhony(st)
    [] i = 5 -> MarkNotIntermediate(st, Special(st, NameNOTINTERMEDIATE))
    [] i = 6 -> MarkIntermediate(st)
    [] i = 7 -> MarkSecondary(st, Special(st, NameSECONDARY))
    [] i = 8 -> ExcludeBoth(st)
    [] i = 9 -> ExportAll(st)
    [] i = 10 -> CommandFlags(st, NameIGNORE, "ignore_errors_flag",
                              COMMANDS_NOERROR)
    [] i = 11 -> CommandFlags(st, NameSILENT, "run_silent", COMMANDS_SILENT)
    [] i = 12 -> MarkWaits(st)
    [] i = 13 -> SnapFiles(st, extra, visit_new)

\* fatal() does not return: the steps after it are not taken
RECURSIVE SnapFrom(_, _, _, _)
SnapFrom(st, i, extra, visit_new) ==
  IF i > SnapSteps \/ st.status # "running" THEN st
  ELSE SnapFrom(SnapStep(st, i, extra, visit_new), i + 1, extra, visit_new)

snap_deps(st, extra, visit_new) == SnapFrom(st, 1, extra, visit_new)

(***************************************************************************)
(* The program up to and including snap_deps: rules with explicit targets  *)
(* are recorded, target-specific variables are set, snap_deps is called    *)
(* with the value .EXTRA_PREREQS expands to (NullStr: no such variable).   *)
(***************************************************************************)
MaxSnapCells == 3    \* struct dep allocated by the rules that are read
MaxSnapDeps == 7     \* struct dep allocated in all, snap_deps included

\* the rule NAME: NAMES (NAME:: NAMES if DC) is read
RecordTarget(name, names, dc) ==
  /\ status = "running"
  /\ stack = <<>>
  /\ ~globals.snapped_deps
  /\ LET lf == lookup_file(table, files, name)
     IN  lf # 0 =>
           IF dc THEN files[lf].double_colon # 0
                      \/ "is_target" \notin files[lf].flags
           ELSE files[lf].double_colon = 0
                /\ "is_target" \notin files[lf].flags
  /\ \E e \in {enter_file(table, files, name)} :
     \E r \in {enter_prereqs(
                  e.table,
                  [e.files EXCEPT
                     ![e.ret].flags = @ \cup {"is_target"},
                     ![e.ret].double_colon = IF dc /\ @ = 0 THEN e.ret
                                             ELSE @],
                  AllocDeps(deps, names),
                  IF names = <<>> THEN 0 ELSE Len(deps) + 1, e.ret)} :
       /\ Len(r.files) <= filecap
       /\ Len(r.deps) <= MaxSnapCells
       /\ files' = [r.files EXCEPT ![e.ret].deps = r.head]
       /\ table' = r.table
       /\ deps' = r.deps
       /\ op' = OpRec("record_target", IF dc THEN "double" ELSE "single")
  /\ UNCHANGED <<rehashed_files, status, errors, tracking, entered, filecap,
                 ptext, ret, rule, xvars, snapvars, sidevars>>

\* a target-specific variable is defined for f; EXTRA is what its
\* .EXTRA_PREREQS expands to (NullStr: its set has no such variable)
SetVariables(f, extra) ==
  /\ status = "running"
  /\ stack = <<>>
  /\ ~globals.snapped_deps
  /\ f \in FileIds
  /\ files[f].variables = 0
  /\ files' = [files EXCEPT ![f].variables = 1, ![f].extra_prereqs = extra]
  /\ op' = OpRec("variables", "none")
  /\ UNCHANGED <<table, deps, rehashed_files, status, errors, tracking,
                 entered, filecap, ptext, ret, rule, xvars, snapvars,
                 sidevars>>

SnapState ==
  [files |-> files, table |-> table, deps |-> deps, g |-> globals,
   status |-> status]

\* snap_deps () is called; ptext keeps the value of .EXTRA_PREREQS
SnapDeps(extra, visit_new) ==
  /\ status = "running"
  /\ stack = <<>>
  /\ \E s \in {snap_deps(SnapState, extra, visit_new)} :
       /\ Len(s.files) <= filecap
       /\ Len(s.deps) <= MaxSnapDeps
       /\ files' = s.files
       /\ table' = s.table
       /\ deps' = s.deps
       /\ globals' = s.g
       /\ status' = s.status
  /\ ptext' = extra
  /\ op' = OpRec("snap_deps",
                 IF globals.snapped_deps THEN "again" ELSE "first")
  /\ UNCHANGED <<rehashed_files, errors, tracking, entered, filecap, ret,
                 rule, xvars, reaper, sidevars>>

(***************************************************************************)
(* .EXTRA_PREREQS: the targets a and b, the global variable and the        *)
(* target-specific ones.                                                   *)
(***************************************************************************)
MaxExtraFiles == 3   \* cap on xcalloc'ed struct file in this specification

NameC == <<"c">>
TextA == <<"a">>
TextCA == <<"c", " ", "a">>
ExtraTexts == {NullStr, TextB, TextA, TextCA}
ExtraTargets == {NameA, NameB}
ExtraPrereqs == {<<>>, <<NameB>>}

NextExtra ==
  \/ \E name \in ExtraTargets, names \in ExtraPrereqs :
        RecordTarget(name, names, FALSE)
  \/ \E f \in FileIds, extra \in ExtraTexts : SetVariables(f, extra)
  \/ \E extra \in ExtraTexts, visit_new \in BOOLEAN :
        SnapDeps(extra, visit_new)

InitExtra ==
  /\ RegInit
  /\ NormIdle
  /\ filecap = MaxExtraFiles
  /\ tracking = FALSE
  /\ ptext = <<>>
  /\ globals \in {[NoGlobals EXCEPT !.second_expansion = b] : b \in BOOLEAN}
  /\ OsIdle

SpecExtra == InitExtra /\ [][NextExtra]_vars

(***************************************************************************)
(* The special targets of intermediate files: .NOTINTERMEDIATE,            *)
(* .INTERMEDIATE and .SECONDARY are declared in any order, with or without *)
(* prerequisites, a may be a double-colon target.                          *)
(***************************************************************************)
MaxSnapFiles == 6    \* cap on xcalloc'ed struct file in this specification

SnapSpecials == {NameNOTINTERMEDIATE, NameINTERMEDIATE, NameSECONDARY}
SnapPrereqs == {<<>>, <<NameA>>, <<NameB>>}

NextSnap ==
  \/ \E name \in SnapSpecials, names \in SnapPrereqs :
        RecordTarget(name, names, FALSE)
  \/ \E dc \in BOOLEAN : RecordTarget(NameA, <<>>, dc)
  \/ \E visit_new \in BOOLEAN : SnapDeps(NullStr, visit_new)

InitSnap ==
  /\ RegInit
  /\ NormIdle
  /\ filecap = MaxSnapFiles
  /\ tracking = FALSE
  /\ ptext = <<>>
  /\ globals = NoGlobals
  /\ OsIdle

SpecSnap == InitSnap /\ [][NextSnap]_vars

(***************************************************************************)
(* .NOTPARALLEL, with and without prerequisites, beside the rule of a and  *)
(* the global .EXTRA_PREREQS.                                              *)
(***************************************************************************)
MaxParallelFiles == 5  \* cap on xcalloc'ed struct file in this specification

ParallelPrereqs == {<<>>, <<NameB>>, <<NameB, NameC>>}
ParallelTexts == {NullStr, <<"d">>}

NextParallel ==
  \/ \E names \in {<<>>, <<NameA>>} :
        RecordTarget(NameNOTPARALLEL, names, FALSE)
  \/ \E names \in ParallelPrereqs, dc \in BOOLEAN :
        RecordTarget(NameA, names, dc)
  \/ \E extra \in ParallelTexts, visit_new \in BOOLEAN :
        SnapDeps(extra, visit_new)

InitParallel ==
  /\ RegInit
  /\ NormIdle
  /\ filecap = MaxParallelFiles
  /\ tracking = FALSE
  /\ ptext = <<>>
  /\ globals = NoGlobals
  /\ OsIdle

SpecParallel == InitParallel /\ [][NextParallel]_vars

(***************************************************************************)
(* remove_intermediates.  RES gives for each file what unlink returns for  *)
(* it: "ok", "ENOENT" or "EIO" for any other error.  The slots of the      *)
(* table are walked in the order of the hash values, which is taken to be  *)
(* the order of entry.  The results of the calls of unlink are kept next   *)
(* to the files unlink was called for.                                     *)
(***************************************************************************)
UnlinkResults == {"ok", "ENOENT", "EIO"}
RmText == <<"r", "m", " ">>
SpaceText == <<" ">>
NewlineText == <<"\n">>

\* mutant: a precious file is kept even if it is dontcare
Eligible_PreciousKept(fl) ==
  /\ "intermediate" \in fl
  /\ "precious" \notin fl
  /\ "secondary" \notin fl
  /\ "notintermediate" \notin fl
  /\ "cmd_target" \notin fl

\* lines 402-403
Eligible(fl) ==
  /\ "intermediate" \in fl
  /\ ("dontcare" \in fl \/ "precious" \notin fl)
  /\ "secondary" \notin fl
  /\ "notintermediate" \notin fl
  /\ "cmd_target" \notin fl

\* lines 418-446: what is reported for f once it has been dealt with
Report(rp, file, g, sig, failed) ==
  LET r1 == IF sig
            THEN [rp EXCEPT !.stderr =
                    Append(@, [msg |-> "deleting", name |-> file.name])]
            ELSE IF ~g.run_silent
            THEN [rp EXCEPT !.stdout =
                    @ \o <<IF rp.doneany THEN SpaceText ELSE RmText,
                            file.name>>,
                            !.doneany = TRUE]
            ELSE rp
  IN  IF failed
      THEN [r1 EXCEPT !.stderr =
              Append(@, [msg |-> "unlink", name |-> file.name]),
                      !.doneany = FALSE]
      ELSE r1

\* mutant: ENOENT is a failure like any other
ReapFile_EnoentFails(rp, file, f, g, sig, res) ==
  IF ~Eligible(file.flags) \/ file.update_status = "us_none" THEN rp
  ELSE
  LET Unlinked(r1) ==
        IF "dontcare" \in file.flags THEN r1
        ELSE Report(r1, file, g, sig, ~g.just_print_flag /\ res # "ok")
  IN  Unlinked([rp EXCEPT !.selected = Append(@, f),
                          !.unlinked = IF g.just_print_flag THEN @
                                       ELSE Append(@, f),
                          !.results = IF g.just_print_flag THEN @
                                      ELSE Append(@, res)])

\* lines 397-447: one slot of the table; res is what unlink returns for f
ReapFile(rp, file, f, g, sig, res) ==
  IF ~Eligible(file.flags) \/ file.update_status = "us_none" THEN rp
  ELSE
  LET Unlinked(r1) ==
        IF ~g.just_print_flag /\ res = "ENOENT" THEN r1
        ELSE IF "dontcare" \in file.flags THEN r1
        ELSE Report(r1, file, g, sig, ~g.just_print_flag /\ res = "EIO")
  IN  Unlinked([rp EXCEPT !.selected = Append(@, f),
                          !.unlinked = IF g.just_print_flag THEN @
                                       ELSE Append(@, f),
                          !.results = IF g.just_print_flag THEN @
                                      ELSE Append(@, res)])

\* lines 392-455
RECURSIVE ReapFrom(_, _, _, _, _, _)
ReapFrom(rp, fs, todo, g, sig, res) ==
  IF todo = {}
  THEN IF rp.doneany /\ ~sig
       THEN [rp EXCEPT !.stdout = Append(@, NewlineText)]
       ELSE rp
  ELSE LET f == CHOOSE x \in todo : \A y \in todo : x <= y
       IN  ReapFrom(ReapFile(rp, fs[f], f, g, sig, res[f]), fs, todo \ {f},
                    g, sig, res)

\* lines 386-390
Punt(g, sig) ==
  \/ g.question_flag
  \/ g.touch_flag
  \/ g.all_secondary
  \/ g.no_intermediates
  \/ sig /\ g.just_print_flag

\* mutant: the early returns are missing
remove_intermediates_NoPunt(fs, tb, g, sig, res) ==
  ReapFrom([sig |-> sig, selected |-> <<>>, unlinked |-> <<>>,
            results |-> <<>>, stdout |-> <<>>, stderr |-> <<>>,
            doneany |-> FALSE],
           fs, tb, g, sig, res)

remove_intermediates(fs, tb, g, sig, res) ==
  IF Punt(g, sig)
  THEN [sig |-> sig, selected |-> <<>>, unlinked |-> <<>>,
        results |-> <<>>, stdout |-> <<>>, stderr |-> <<>>,
        doneany |-> FALSE]
  ELSE ReapFrom([sig |-> sig, selected |-> <<>>, unlinked |-> <<>>,
                 results |-> <<>>, stdout |-> <<>>, stderr |-> <<>>, doneany |-> FALSE],
                fs, tb, g, sig, res)

\* make is about to exit and calls remove_intermediates (sig)
RemoveIntermediates(sig, res) ==
  /\ status = "running"
  /\ stack = <<>>
  /\ \E rp \in {remove_intermediates(files, table, globals, sig, res)} :
       reaper' = [sig |-> rp.sig, selected |-> rp.selected,
                  unlinked |-> rp.unlinked, results |-> rp.results,
                  stdout |-> rp.stdout,
                  stderr |-> rp.stderr]
  /\ op' = OpRec("remove_intermediates", IF sig THEN "signal" ELSE "exit")
  /\ UNCHANGED <<files, table, deps, rehashed_files, status, errors,
                 tracking, entered, filecap, ptext, ret, rule, xvars, globals,
                 sidevars>>

\* the rest of the program has marked f and tried, or not, to remake it
Remade(f, marks, us) ==
  /\ status = "running"
  /\ stack = <<>>
  /\ f \in FileIds
  /\ files[f].update_status = "us_none"
  /\ files[f].flags \subseteq {"is_target"}
  /\ marks # {} \/ us # "us_none"
  /\ files' = [files EXCEPT ![f].flags = @ \cup marks,
                            ![f].update_status = us]
  /\ op' = OpRec("remade", us)
  /\ UNCHANGED <<table, deps, rehashed_files, status, errors, tracking,
                 entered, filecap, ptext, ret, rule, xvars, snapvars,
                 sidevars>>

(***************************************************************************)
(* The files a and b at the end of a run: marked, remade or not, under     *)
(* any one of the flags remove_intermediates looks at.                     *)
(***************************************************************************)
MaxReapFiles == 2    \* cap on xcalloc'ed struct file in this specification

ReapFlags ==
  {"intermediate", "precious", "dontcare", "secondary", "notintermediate",
   "cmd_target"}
\* any marks for the first file, two sets of marks for the others
ReapMarks(f) ==
  IF f = 1 THEN SUBSET ReapFlags
  ELSE {{"intermediate"}, {"intermediate", "precious"}}
ReapStatus == {"us_none", "us_success"}
ReapGlobals ==
  {NoGlobals}
    \cup {[NoGlobals EXCEPT ![k] = TRUE] :
            k \in {"question_flag", "touch_flag", "just_print_flag",
                   "all_secondary", "no_intermediates", "run_silent"}}

\* remove_intermediates is the last thing the program does
NotReaped == op.name # "remove_intermediates"

NextReap ==
  \/ \E name \in {NameA, NameB} : NotReaped /\ EnterFile(name)
  \/ NotReaped /\ RegisterDoubleColon(NameA)
  \/ \E f \in FileIds, us \in ReapStatus :
       \E marks \in ReapMarks(f) :
         NotReaped /\ Remade(f, marks, us)
  \/ \E sig \in BOOLEAN, res \in [1..filecap -> UnlinkResults] :
        NotReaped /\ RemoveIntermediates(sig, res)

InitReap ==
  /\ RegInit
  /\ NormIdle
  /\ filecap = MaxReapFiles
  /\ tracking = FALSE
  /\ ptext = <<>>
  /\ globals \in ReapGlobals
  /\ OsIdle

SpecReap == InitReap /\ [][NextReap]_vars

(***************************************************************************)
(* set_command_state.  The command states are numbered in the order of     *)
(* enum cmd_state: cs_not_started, cs_deps_running, cs_running,            *)
(* cs_finished.                                                            *)
(***************************************************************************)
CommandStates == 0..3

\* the files of the also_make list that begins at d
AlsoMakes(ds, d) ==
  {ds[DepList(ds, d)[i]].file : i \in 1..Len(DepList(ds, d))}

\* mutant: the state of an also_make is set whatever it was
RECURSIVE set_also_makes_Always(_, _, _, _)
set_also_makes_Always(fs, ds, d, state) ==
  IF d = 0 THEN fs
  ELSE set_also_makes_Always(
         [fs EXCEPT ![ds[d].file].command_state = state],
         ds, ds[d].next, state)

\* lines 1084-1086
RECURSIVE set_also_makes(_, _, _, _)
set_also_makes(fs, ds, d, state) ==
  IF d = 0 THEN fs
  ELSE set_also_makes(
         IF state > fs[ds[d].file].command_state
         THEN [fs EXCEPT ![ds[d].file].command_state = state]
         ELSE fs,
         ds, ds[d].next, state)

\* lines 1077-1087
set_command_state(fs, ds, file, state) ==
  set_also_makes([fs EXCEPT ![file].command_state = state], ds,
                 fs[file].also_make, state)

SetCommandState(file, state) ==
  /\ status = "running"
  /\ file \in FileIds
  /\ files' = set_command_state(files, deps, file, state)
  /\ op' = OpRec("set_command_state",
                 IF \E m \in AlsoMakes(deps, files[file].also_make) :
                      m # file /\ files[m].command_state > state
                 THEN "kept" ELSE "set")
  /\ UNCHANGED <<table, deps, rehashed_files, status, errors, tracking,
                 entered, filecap, auxvars, sidevars>>

\* the reader of makefiles puts g in front of the also_make list of f
AlsoMake(f, g) ==
  /\ status = "running"
  /\ f \in FileIds
  /\ g \in FileIds
  /\ deps' = Append(deps, [NewDep(files[g].name) EXCEPT
                             !.file = g, !.next = files[f].also_make])
  /\ files' = [files EXCEPT ![f].also_make = Len(deps) + 1]
  /\ op' = OpRec("also_make", IF f = g THEN "self" ELSE "other")
  /\ UNCHANGED <<table, rehashed_files, status, errors, tracking, entered,
                 filecap, auxvars, sidevars>>

(***************************************************************************)
(* The files a and b, any also_make lists over them and any calls of       *)
(* set_command_state.                                                      *)
(***************************************************************************)
MaxStateFiles == 2   \* cap on xcalloc'ed struct file in this specification
MaxAlsoMakes == 2    \* cap on the struct dep of the also_make lists

NextState ==
  \/ \E name \in {NameA, NameB} : EnterFile(name)
  \/ \E f \in FileIds, g \in FileIds :
        Len(deps) < MaxAlsoMakes /\ AlsoMake(f, g)
  \/ \E f \in FileIds, state \in CommandStates : SetCommandState(f, state)

InitState ==
  /\ RegInit
  /\ NormIdle
  /\ filecap = MaxStateFiles
  /\ tracking = FALSE
  /\ ptext = <<>>
  /\ globals = NoGlobals
  /\ OsIdle

SpecState == InitState /\ [][NextState]_vars

(***************************************************************************)
(* The registry entered under names with and without a leading "./"; a may *)
(* be a double-colon target.                                               *)
(***************************************************************************)
MaxRoundFiles == 4   \* cap on xcalloc'ed struct file in this specification

NameDotSlashA == <<".", "/", "a">>
NameDotSlashB == <<".", "/", "b">>
RoundNames == {NameA, NameB, NameDotSlashA, NameDotSlashB, DotSlash}

NextRound ==
  \/ \E name \in RoundNames : EnterFile(name)
  \/ RegisterDoubleColon(NameA)

InitRound ==
  /\ RegInit
  /\ NormIdle
  /\ filecap = MaxRoundFiles
  /\ tracking = FALSE
  /\ ptext = <<>>
  /\ globals = NoGlobals
  /\ OsIdle

SpecRound == InitRound /\ [][NextRound]_vars

(***************************************************************************)
(* The life of the registry: files are entered, rules are read, snap_deps  *)
(* is called once, then files are expanded; files are entered and renamed  *)
(* at any time and rules are read for files that have not been expanded.   *)
(***************************************************************************)
MaxLifeFiles == 2    \* cap on xcalloc'ed struct file in this specification
MaxLifeCells == 2    \* cap on the struct dep of the rules that are read

LifeRules == {<<VarCell>>}
LifeTexts == {TextB}

NextLife ==
  \/ \E name \in {NameA, NameB} : EnterFile(name)
  \/ \E owner \in FileIds, cells \in LifeRules :
        /\ Len(deps) + Len(cells) <= MaxLifeCells
        /\ "snapped" \notin files[owner].flags
        /\ ReadRule(owner, cells, NoStem)
  \/ \E f \in FileIds : SetVariables(f, TextB)
  \/ ~globals.snapped_deps /\ SnapDeps(NullStr, FALSE)
  \/ \E f \in FileIds : globals.snapped_deps /\ ExpandCall(f)
  \/ \E text \in LifeTexts : ExpandResume(text)
  \/ \E f \in FileIds, name \in {NameA, NameB} :
        stack = <<>> /\ RenameFile(f, name)

InitLife ==
  /\ RegInit
  /\ NormIdle
  /\ filecap = MaxLifeFiles
  /\ tracking = FALSE
  /\ ptext = <<>>
  /\ globals \in {[NoGlobals EXCEPT !.second_expansion = b] : b \in BOOLEAN}
  /\ OsIdle

SpecLife == InitLife /\ [][NextLife]_vars

(***************************************************************************)
(* Intermediate files and renames: the special targets are declared for a  *)
(* and b, snap_deps is called once, a and b are renamed before and after.  *)
(***************************************************************************)
MaxInterFiles == 4   \* cap on xcalloc'ed struct file in this specification

InterSpecials == {NameNOTINTERMEDIATE, NameINTERMEDIATE}
InterPrereqs == {<<>>, <<NameA>>, <<NameB>>}

NextInter ==
  \/ \E name \in InterSpecials, names \in InterPrereqs :
        RecordTarget(name, names, FALSE)
  \/ ~globals.snapped_deps /\ SnapDeps(NullStr, FALSE)
  \/ \E f \in FileIds, name \in {NameA, NameB} :
        files[f].hname \in {NameA, NameB} /\ RenameFile(f, name)

InitInter ==
  /\ RegInit
  /\ NormIdle
  /\ filecap = MaxInterFiles
  /\ tracking = FALSE
  /\ ptext = <<>>
  /\ globals = NoGlobals
  /\ OsIdle

SpecInter == InitInter /\ [][NextInter]_vars

(***************************************************************************)
(* The jobserver of posixos.c, HAVE_SEM_OPEN: the value of the semaphore   *)
(* job_sem, the counters nacquired and nposted, the place of the program   *)
(* within jobserver_acquire.  The SIGCHLD handler runs between any two     *)
(* steps of the program; tokens counts what the caller has acquired and    *)
(* not yet released.                                                       *)
(***************************************************************************)
MaxSlots == 2        \* slots given to jobserver_setup
MaxAcquires == 3     \* calls of jobserver_acquire
MaxSignals == 3      \* SIGCHLD delivered

\* jobserver_setup, lines 105-116: sem_open (..., slots)
jobserver_setup(j, slots) ==
  [j EXCEPT !.sem = slots, !.slots = slots, !.pc = "idle"]

\* jobserver_release, lines 267-278: sem_post (job_sem)
jobserver_release(j) == [j EXCEPT !.sem = @ + 1, !.tokens = @ - 1]

\* jobserver_signal, lines 366-395
jobserver_signal(j) ==
  LET Posted(h) == IF j.nacquired > j.nposted
                   THEN [h EXCEPT !.sem = @ + 1, !.nposted = @ + 1]
                   ELSE h
  IN  Posted([j EXCEPT !.signals = @ + 1, !.eintr = (j.pc = "sem_wait")])

JobserverSetup(slots) ==
  /\ js.pc = "none"
  /\ js' = jobserver_setup(js, slots)
  /\ UNCHANGED <<regvars, nin, nout, nout2, npc, tok>>

\* jobserver_acquire, lines 564-584: up to the call of sem_wait
AcquireCall ==
  /\ js.pc = "idle"
  /\ js.calls < MaxAcquires
  /\ js' = [js EXCEPT !.pc = "sem_wait", !.calls = @ + 1, !.eintr = FALSE]
  /\ UNCHANGED <<regvars, nin, nout, nout2, npc, tok>>

\* sem_wait (job_sem), line 584: a token is taken, or the handler has run
\* and the call fails with EINTR
SemWait ==
  /\ js.pc = "sem_wait"
  /\ \/ js.sem > 0 /\ js' = [js EXCEPT !.sem = @ - 1, !.pc = "acquired"]
     \/ js.eintr /\ js' = [js EXCEPT !.pc = "idle", !.eintr = FALSE]
  /\ UNCHANGED <<regvars, nin, nout, nout2, npc, tok>>

\* jobserver_acquire, lines 596-600: ++nacquired; return 1;
AcquireReturn ==
  /\ js.pc = "acquired"
  /\ js' = [js EXCEPT !.nacquired = @ + 1, !.tokens = @ + 1, !.pc = "idle"]
  /\ UNCHANGED <<regvars, nin, nout, nout2, npc, tok>>

\* jobserver_release is called for a token that was acquired
JobserverRelease ==
  /\ js.pc = "idle"
  /\ js.tokens > 0
  /\ js' = jobserver_release(js)
  /\ UNCHANGED <<regvars, nin, nout, nout2, npc, tok>>

\* SIGCHLD is delivered
JobserverSignal ==
  /\ js.pc # "none"
  /\ js.signals < MaxSignals
  /\ js' = jobserver_signal(js)
  /\ UNCHANGED <<regvars, nin, nout, nout2, npc, tok>>

NextJobs ==
  \/ \E slots \in 1..MaxSlots : JobserverSetup(slots)
  \/ AcquireCall
  \/ SemWait
  \/ AcquireReturn
  \/ JobserverRelease
  \/ JobserverSignal

InitJobs ==
  /\ RegInit
  /\ NormIdle
  /\ filecap = 0
  /\ tracking = FALSE
  /\ ptext = <<>>
  /\ globals = NoGlobals
  /\ OsIdle

SpecJobs == InitJobs /\ [][NextJobs]_vars

(***************************************************************************)
(* The splitter harness: split_prereqs applied to a bounded text.          *)
(***************************************************************************)
SplitAlphabet == {"a", Blank, Pipe}

RECURSIVE TextsUpTo(_)
TextsUpTo(n) ==
  IF n = 0 THEN {<<>>}
  ELSE LET shorter == TextsUpTo(n - 1)
       IN  shorter \cup {Append(s, c) : s \in {t \in shorter : Len(t) = n - 1},
                                        c \in SplitAlphabet}

TextABCD == <<"a", " ", "b", " ", "|", " ", "c", " ", "d">>
TextPipeC == <<"|", " ", "c">>
SplitInputs == TextsUpTo(MaxText) \cup {TextABCD, TextPipeC}

InitSplit ==
  /\ RegInit
  /\ NormIdle
  /\ filecap = 0
  /\ tracking = FALSE
  /\ ptext \in SplitInputs
  /\ globals = NoGlobals
  /\ OsIdle

SplitPrereqs ==
  /\ op.name = "init"
  /\ LET r == split_prereqs(deps, ptext, NullStr)
     IN  /\ deps' = r.deps
         /\ ret' = r.head
  /\ op' = OpRec("split_prereqs", "none")
  /\ UNCHANGED <<files, table, rehashed_files, status, errors, tracking,
                 entered, filecap, ptext, rule, xvars, snapvars, sidevars>>

NextSplit == SplitPrereqs

SpecSplit == InitSplit /\ [][NextSplit]_vars

(***************************************************************************)
(* The normalizer harness: normalize applied once and twice to a bounded   *)
(* input.                                                                  *)
(***************************************************************************)
NormInputs == StringsUpTo(MaxLen) \cup {FooExample}

InitNorm ==
  /\ RegInit
  /\ filecap = 0
  /\ tracking = FALSE
  /\ nin \in NormInputs
  /\ ptext = <<>>
  /\ globals = NoGlobals
  /\ OsIdle
  /\ nout = <<>>
  /\ nout2 = <<>>
  /\ npc = "start"

Normalize ==
  /\ npc = "start"
  /\ nout' = normalize(nin)
  /\ npc' = "once"
  /\ UNCHANGED <<nin, nout2, regvars, tok, js>>

Renormalize ==
  /\ npc = "once"
  /\ nout2' = normalize(nout)
  /\ npc' = "twice"
  /\ UNCHANGED <<nin, nout, regvars, tok, js>>

NextNorm == Normalize \/ Renormalize

SpecNorm == InitNorm /\ [][NextNorm]_vars

(***************************************************************************)
(* token.c.  The text is a sequence of characters that ends with NUL, a    *)
(* pointer into it is an index, 0 is the null pointer.  A function that    *)
(* writes to the text returns the new text.  A failed assert leaves the    *)
(* text <<"ABORT">>, a memmove outside of the text leaves <<"UB">>.        *)
(***************************************************************************)
NUL == "NUL"
separators == {" ", "\t", "\n"}
quotes_and_separators == {"'", "\""} \cup separators

At(b, p) == IF p \in 1..Len(b) THEN b[p] ELSE "OOB"
Aborted == <<"ABORT">>

\* string.h
RECURSIVE strspn(_, _, _)
strspn(b, s, accept) ==
  IF At(b, s) \in accept THEN 1 + strspn(b, s + 1, accept) ELSE 0

RECURSIVE strcspn(_, _, _)
strcspn(b, s, reject) ==
  IF s > Len(b) \/ At(b, s) = NUL \/ At(b, s) \in reject THEN 0
  ELSE 1 + strcspn(b, s + 1, reject)

memmove(b, dst, src, n) ==
  IF n < 0 \/ dst + n - 1 > Len(b) \/ src + n - 1 > Len(b) THEN <<"UB">>
  ELSE [i \in 1..Len(b) |->
          IF i \in dst..(dst + n - 1) THEN b[src + (i - dst)] ELSE b[i]]

\* lines 369-373
whitespace(c) == c = "\n" \/ c = " " \/ c = "\t"

\* mutant: an escaped newline is not skipped
skip_separators_NoEscapedNewline(b, s) == s + strspn(b, s, separators)

\* lines 375-391
RECURSIVE skip_separators(_, _)
skip_separators(b, s) ==
  LET Again(t) == IF t = s THEN s ELSE skip_separators(b, t)
      Escaped(t) ==
        IF At(b, t) = "\\" /\ At(b, t + 1) = "\n" THEN t + 2 ELSE t
  IN  Again(Escaped(s + strspn(b, s, separators)))

\* lines 393-421; n is the number of backslashes just before s
RECURSIVE skip_until_separator(_, _, _)
skip_until_separator(b, s, n) ==
  IF s > Len(b) \/ At(b, s) = NUL THEN s
  ELSE IF At(b, s) = "\n" THEN s - (n % 2)
  ELSE IF At(b, s) = "\\" THEN skip_until_separator(b, s + 1, n + 1)
  ELSE IF n % 2 = 0 /\ At(b, s) \in quotes_and_separators THEN s
  ELSE skip_until_separator(b, s + 1, 0)

\* lines 423-454; the result is the number of characters passed
RECURSIVE strecspn(_, _, _, _)
strecspn(b, s, reject, n) ==
  IF s > Len(b) \/ At(b, s) = NUL THEN 0
  ELSE IF At(b, s) = "\\"
  THEN IF "\\" \in reject THEN 0 ELSE 1 + strecspn(b, s + 1, reject, n + 1)
  ELSE IF n % 2 = 0 /\ At(b, s) \in reject THEN 0
  ELSE 1 + strecspn(b, s + 1, reject, 0)

\* lines 456-488
RECURSIVE memecspn(_, _, _, _, _)
memecspn(b, s, reject, slen, n) ==
  IF slen <= 0 \/ s > Len(b) \/ At(b, s) = NUL THEN 0
  ELSE IF At(b, s) = "\\"
  THEN IF "\\" \in reject THEN 0
       ELSE 1 + memecspn(b, s + 1, reject, slen - 1, n + 1)
  ELSE IF n % 2 = 0 /\ At(b, s) \in reject THEN 0
  ELSE 1 + memecspn(b, s + 1, reject, slen - 1, 0)

\* lines 119-175: the loop that finds the end of the token that begins
\* before s; st is 1 if a closing quote is missing
RECURSIVE TokenEnd(_, _)
TokenEnd(b, s) ==
  LET Quoted(close) ==
        IF At(b, close) = NUL THEN [s |-> close, st |-> 1]
        ELSE IF whitespace(At(b, close + 1)) THEN [s |-> close + 1, st |-> 0]
        ELSE TokenEnd(b, close + 1)
      Stop(t) ==
        IF At(b, t) = NUL THEN [s |-> t, st |-> 0]
        ELSE IF At(b, t) = "\\" /\ At(b, t + 1) = "\n"
        THEN [s |-> t, st |-> 0]
        ELSE IF At(b, t) = "'"
        THEN Quoted(t + 1 + strcspn(b, t + 1, {"'"}))
        ELSE IF At(b, t) = "\""
        THEN Quoted(t + 1 + strecspn(b, t + 1, {"\""}, 0))
        ELSE [s |-> t, st |-> 0]
  IN  Stop(skip_until_separator(b, s, 0))

\* mutant: a missing closing quote is not noticed
next_token_NoStatus(b, input) ==
  LET Found(token) ==
        IF At(b, token) = NUL
        THEN [token |-> 0, tokenlen |-> 0, input |-> token, st |-> 0]
        ELSE LET Ended(e) ==
                   [token |-> token, tokenlen |-> e.s - token,
                    input |-> skip_separators(b, e.s), st |-> 0]
             IN  Ended(TokenEnd(b, token))
  IN  Found(skip_separators(b, input))

\* lines 97-185; st is what is or-ed into *status
next_token(b, input) ==
  LET Found(token) ==
        IF At(b, token) = NUL
        THEN [token |-> 0, tokenlen |-> 0, input |-> token, st |-> 0]
        ELSE LET Ended(e) ==
                   [token |-> token, tokenlen |-> e.s - token,
                    input |-> skip_separators(b, e.s), st |-> e.st]
             IN  Ended(TokenEnd(b, token))
  IN  Found(skip_separators(b, input))

\* lines 258-284: the result is the text, the end of the quoted part and
\* the number of characters left after it
quote_removal_in_single_quotes(b, s, slen) ==
  LET Inside == {c \in (s + 1)..(s + slen - 1) : At(b, c) = "'"}
      Removed(close) ==
        [buf |-> memmove(memmove(b, close, close + 1, s + slen - close),
                         s, s + 1, s + slen - 1 - s),
         s |-> close - 1,
         len |-> s + slen - 1 - close]
  IN  IF slen > 1 /\ At(b, s) = "'" /\ Inside # {}
      THEN Removed(CHOOSE c \in Inside : \A d \in Inside : c <= d)
      ELSE [buf |-> Aborted, s |-> 0, len |-> 0]

\* lines 509-512
RECURSIVE WalkBack(_, _, _)
WalkBack(b, p, beg) ==
  IF beg < p /\ At(b, p) \in {"\t", " "} THEN WalkBack(b, p - 1, beg) ELSE p

\* lines 516-522
RECURSIVE WalkForward(_, _, _)
WalkForward(b, s, end) ==
  IF s < end /\ At(b, s) \in {"\t", " "} THEN WalkForward(b, s + 1, end)
  ELSE IF s < end /\ At(b, s) = "\\" /\ At(b, s + 1) = "\n"
  THEN WalkForward(b, s + 2, end)
  ELSE s

\* lines 494-534: the result is the text, the place after the space and
\* the new end
collapse_escaped_newlines(b, s, beg, end) ==
  LET Replace(p, t) ==
        [buf |-> memmove([b EXCEPT ![p] = " "], p + 1, t, end - t),
         s |-> p + 1,
         end |-> end - (t - (p + 1))]
  IN  IF beg < end /\ beg <= s /\ s < end /\ At(b, s) = "\\"
         /\ At(b, s + 1) = "\n"
      THEN Replace(WalkBack(b, s - 1, beg) + 1, WalkForward(b, s, end))
      ELSE [buf |-> Aborted, s |-> 0, end |-> 0]

\* lines 315-358: the loop over the text between the double quotes
RECURSIVE UnquoteFrom(_, _, _, _)
UnquoteFrom(b, beg, s0, end) ==
  LET Collapsed(c) == UnquoteFrom(c.buf, beg, c.s, c.end)
      At_(s) ==
        IF s >= end \/ b = Aborted \/ b = <<"UB">>
        THEN [buf |-> b, s |-> s, len |-> end - s]
        ELSE IF At(b, s) = "\""
        THEN [buf |-> memmove(b, s, s + 1, end - s), s |-> s,
              len |-> end - 1 - s]
        ELSE IF At(b, s) # "\\" THEN [buf |-> Aborted, s |-> 0, len |-> 0]
        ELSE IF s + 1 >= end THEN [buf |-> b, s |-> s, len |-> end - s]
        ELSE IF At(b, s + 1) = "\\" \/ At(b, s + 1) = "\""
        THEN UnquoteFrom(memmove(b, s, s + 1, end - s), beg, s + 1, end - 1)
        ELSE IF At(b, s + 1) = "\n"
        THEN Collapsed(collapse_escaped_newlines(b, s, beg, end))
        ELSE UnquoteFrom(b, beg, s + 1, end)
  IN  At_(s0 + memecspn(b, s0, {"\\", "\""}, end - s0, 0))

\* lines 298-363
quote_removal_in_double_quotes(b, s, slen) ==
  IF slen > 1 /\ At(b, s) = "\""
  THEN UnquoteFrom(memmove(b, s, s + 1, slen), s, s, s + slen - 1)
  ELSE [buf |-> Aborted, s |-> 0, len |-> 0]

\* lines 199-244: the loop of dequote over [s, end)
RECURSIVE DequoteFrom(_, _, _, _)
DequoteFrom(b, beg, s, end) ==
  LET Unquoted(r) == DequoteFrom(r.buf, beg, r.s, r.s + r.len)
  IN  IF b = Aborted \/ b = <<"UB">> THEN [buf |-> b, slen |-> 0]
      ELSE IF s >= end
      THEN IF beg <= end
           THEN [buf |-> [b EXCEPT ![beg + (end - beg)] = NUL],
                 slen |-> end - beg]
           ELSE [buf |-> Aborted, slen |-> 0]
      ELSE IF At(b, s) = "'"
      THEN Unquoted(quote_removal_in_single_quotes(b, s, end - s))
      ELSE IF At(b, s) = "\""
      THEN Unquoted(quote_removal_in_double_quotes(b, s, end - s))
      ELSE IF At(b, s) # "\\" THEN DequoteFrom(b, beg, s + 1, end)
      ELSE IF At(b, s + 1) = "\n"
      THEN DequoteFrom(memmove(b, s, s + 2, end - s - 2), beg, s, end - 2)
      ELSE IF At(b, s + 1) \in {"'", "\"", "\\", " ", "\t", NUL}
      THEN DequoteFrom(memmove(b, s, s + 1, end - s - 1), beg, s + 1,
                       end - 1)
      ELSE DequoteFrom(memmove(b, s, s + 1, end - s - 1), beg, s, end - 1)

\* lines 191-250
dequote(b, s, slen) == DequoteFrom(b, s, s, s + slen)

\* *status |= st
BitOr(bits, st) ==
  IF st = 1 /\ bits % 2 = 0 THEN bits + 1 ELSE bits

\* lines 61-70; bits is *status before the call; the result is the text,
\* *s, *tokenlen and *status after the call and the pointer returned
next_dequoted_token(b, s, bits) ==
  LET Dequoted(t, d) ==
        [buf |-> d.buf, s |-> t.input, tokenlen |-> d.slen,
         status |-> BitOr(bits, t.st), token |-> t.token]
      Found(t) ==
        IF t.token # 0 /\ t.st = 0
        THEN Dequoted(t, dequote(b, t.token, t.tokenlen))
        ELSE [buf |-> b, s |-> t.input, tokenlen |-> t.tokenlen,
              status |-> BitOr(bits, t.st), token |-> t.token]
  IN  Found(next_token(b, s))

(***************************************************************************)
(* The tokenizer harness: a text, *s at its beginning and *status as the   *)
(* caller left it; next_dequoted_token is called again and again, also     *)
(* after it has returned 0.                                                *)
(***************************************************************************)
MaxTokLen == 5       \* longest text, the terminator not counted
MaxTokCalls == MaxTokLen + 1

TokChars == {"a", " ", "'", "\"", "\\", "\n"}
TokTexts ==
  UNION {[1..n -> TokChars] : n \in 0..MaxTokLen}
TokStatus == {0, 1, 2}

NextDequotedToken ==
  /\ tok.buf # <<>>
  /\ tok.calls < MaxTokCalls
  /\ \E r \in {next_dequoted_token(tok.buf, tok.s, tok.status)} :
       tok' = [buf |-> r.buf, s |-> r.s, tokenlen |-> r.tokenlen,
               status |-> r.status, token |-> r.token,
               calls |-> tok.calls + 1]
  /\ UNCHANGED <<regvars, nin, nout, nout2, npc, js>>

NextToken == NextDequotedToken

InitToken ==
  /\ RegInit
  /\ NormIdle
  /\ filecap = 0
  /\ tracking = FALSE
  /\ ptext = <<>>
  /\ globals = NoGlobals
  /\ js = NoJs
  /\ \E text \in TokTexts, st \in TokStatus :
       tok = [buf |-> text \o <<NUL>>, s |-> 1, tokenlen |-> 0,
              status |-> st, token |-> 0, calls |-> 0]

SpecToken == InitToken /\ [][NextToken]_vars


(***************************************************************************)
(* Properties of the normalizer (SpecNorm).                                *)
(***************************************************************************)
IsOrdinary(c) == c # "." /\ c # "/"

RECURSIVE Ordinary(_)
Ordinary(s) ==
  IF s = <<>> THEN <<>>
  ELSE IF IsOrdinary(s[1]) THEN <<s[1]>> \o Ordinary(Tail(s))
  ELSE Ordinary(Tail(s))

\* s can be obtained from t by deleting characters
RECURSIVE IsSubsequence(_, _)
IsSubsequence(s, t) ==
  IF s = <<>> THEN TRUE
  ELSE IF t = <<>> THEN FALSE
  ELSE IF s[1] = t[1] THEN IsSubsequence(Tail(s), Tail(t))
  ELSE IsSubsequence(s, Tail(t))

\* one or more "./" segments, each followed by any number of slashes
RECURSIVE IsAllDotSlash(_)
IsAllDotSlash(s) ==
  /\ Len(s) >= 2
  /\ s[1] = "."
  /\ s[2] = "/"
  /\ LET rest == Tail0(s, 2 + SlashSpan(Tail0(s, 2)))
     IN  rest = <<>> \/ IsAllDotSlash(rest)

StartsWithDotSlash(s) == Len(s) >= 2 /\ s[1] = "." /\ s[2] = "/"

\* left-to-right reading of "every /./ goes, with the slashes after it":
\* after a kept "/", drop each "./" and the slash run that follows it
RECURSIVE DropDotSegments(_, _)
DropDotSegments(s, afterSlash) ==
  IF s = <<>> THEN <<>>
  ELSE IF afterSlash /\ StartsWithDotSlash(s)
  THEN DropDotSegments(Tail0(s, 2 + SlashSpan(Tail0(s, 2))), TRUE)
  ELSE <<s[1]>> \o DropDotSegments(Tail(s), s[1] = "/")

\* C5: normalize is idempotent: normalizing the result of normalize again
\* gives the same string, for every input over the alphabet up to MaxLen.
C5_Idempotent == npc = "twice" => nout2 = nout

\* C5 witness: an input that normalize really changed has been normalized
\* twice.
C5_Witness ==
  /\ npc = "twice"
  /\ FindSlashDotSlash(nin) # 0
  /\ nout # nin
  /\ nout2 = nout

\* C6 as claimed: every all-dot-slash input is mapped to "./" by normalize.
C6_AllDotSlashToDotSlash ==
  (npc # "start" /\ IsAllDotSlash(nin)) => nout = DotSlash

\* C7: the result of normalize never contains "/./"; it is the input with,
\* after the leading "./" segments, every "./" that follows a slash dropped
\* together with the slash run after it and every other character kept in
\* order; and normalize("foo/.///.///bar/") is "foo/bar/".
C7_CollapsesDotSegments ==
  npc # "start" =>
    /\ FindSlashDotSlash(nout) = 0
    /\ IsSubsequence(nout, nin)
    /\ Ordinary(nout) = Ordinary(nin)
    /\ ~StartsWithDotSlash(nin) => nout = DropDotSegments(nin, FALSE)
    /\ nin = FooExample => nout = FooBar

\* C7 witness: the example of the claim has been normalized.
C7_Witness ==
  /\ npc = "once"
  /\ nin = FooExample
  /\ nout = FooBar


(***************************************************************************)
(* Properties of the registry (Spec).                                      *)
(***************************************************************************)
SeqToSet(q) == {q[i] : i \in 1..Len(q)}

\* the members of the double-colon chain the registry reaches from node h:
\* h and what follows it by prev
ChainOf(fs, h) == SeqToSet(PrevChain(fs, h))

IsDoubleColonKey(tb, fs, x) ==
  LET h == hash_find_item(tb, fs, x)
  IN  h # 0 /\ fs[h].double_colon # 0

\* C1: a second enter_file(x), with only enter_file calls in between and x
\* not a double-colon chain, returns the node the first one returned, creates
\* nothing, and the registry holds exactly that one node under key x.
C1_SameNodeTwice ==
  [][\A x \in EnterNames :
       (EnterFile(x) /\ entered[x] # 0 /\ ~IsDoubleColonKey(table, files, x))
         => /\ enter_file(table, files, x).ret = entered[x]
            /\ Len(files') = Len(files)
            /\ {f \in table' : files'[f].hname = x} = {entered[x]}]_vars

\* C1 witness: a second enter_file found the node of the first one while
\* other names were entered as well.
C1_Witness ==
  /\ op = OpRec("enter_file", "found")
  /\ Len(files) >= 2
  /\ \E x \in EnterNames :
       /\ entered[x] \in table
       /\ files[entered[x]].double_colon = 0
       /\ files[entered[x]].hname = x

\* C2 as claimed, second half: all members of a double-colon chain the
\* registry reaches carry the registry key of the chain.
C2_ChainSharesKey ==
  status = "running" =>
    \A h \in table : \A m \in ChainOf(files, h) :
       files[m].hname = files[h].hname

\* C2, first half: registering a name as double-colon when it already is a
\* double-colon chain yields a new node, distinct from the members so far,
\* linked into the chain of the same head, with an edge list of its own.
C2_TwoDistinctChained ==
  [][\A x \in EnterNames :
       (RegisterDoubleColon(x) /\ IsDoubleColonKey(table, files, x))
         => LET h == hash_find_item(table, files, x)
                new == Len(files) + 1
            IN  /\ Len(files') = new
                /\ new \in ChainOf(files', h)
                /\ ChainOf(files, h) \subseteq ChainOf(files', h)
                /\ files'[new].double_colon = h
                /\ files'[new].deps = 0]_vars

\* C3 as claimed: the new member becomes the node the registry key maps to
\* and every member's last pointer changes.
C3_NewMemberIsHead ==
  [][\A x \in EnterNames :
       (EnterFile(x) /\ IsDoubleColonKey(table, files, x))
         => LET h == hash_find_item(table, files, x)
                new == enter_file(table, files, x).ret
            IN  /\ hash_find_item(table', files', x) = new
                /\ \A m \in ChainOf(files, h) :
                      files'[m].last = new]_vars

\* C3 amended: the new member is appended at the tail of the chain: the
\* registry keeps mapping the key to the old head, the new member's
\* double_colon is that head, the previous tail's prev is the new member,
\* and only the head's last pointer is updated (to the new member).
C3_AppendedAtTail ==
  [][\A x \in EnterNames :
       (EnterFile(x) /\ IsDoubleColonKey(table, files, x))
         => LET h == hash_find_item(table, files, x)
                new == Len(files) + 1
            IN  /\ enter_file(table, files, x).ret = new
                /\ Len(files') = new
                /\ table' = table
                /\ hash_find_item(table', files', x) = h
                /\ files'[new].double_colon = h
                /\ files'[new].prev = 0
                /\ files'[new].last = 0
                /\ files'[files[h].last].prev = new
                /\ files'[h].last = new
                /\ PrevChain(files', h) = PrevChain(files, h) \o <<new>>
                /\ \A m \in FileIds \ {h} :
                      files'[m].last = files[m].last]_vars

\* C3 witness: enter_file has appended a third member to a chain.
C3_Witness ==
  /\ op = OpRec("enter_file", "chained")
  /\ \E h \in table :
       /\ files[h].double_colon = h
       /\ files[h].last = Len(files)
       /\ Len(PrevChain(files, h)) = 3

\* C4 as claimed: lookup_file of a name and of its normal form agree (for
\* the names whose normal form is not the empty string).
C4_LookupNormalizes ==
  status = "running" =>
    \A n \in LookupNames :
       normalize(n) # <<>> =>
         lookup_file(table, files, n) = lookup_file(table, files, normalize(n))


\* C6, the registry half: lookup_file searches the registry for "./" when
\* given an all-dot-slash name.
C6_LookupUnderDotSlash ==
  status = "running" =>
    \A n \in LookupNames :
       IsAllDotSlash(n) =>
         /\ LookupKey(n) = DotSlash
         /\ lookup_file(table, files, n)
              = hash_find_item(table, files, DotSlash)

(***************************************************************************)
(* Properties of rename (Spec, SpecMerge).  FROM ranges over the nodes     *)
(* the registry maps a key to.                                             *)
(***************************************************************************)
\* rename_file (f, n) finds no node under n: the re-key case
IsRekey(f, n) ==
  /\ f \in table
  /\ files[f].hname # n
  /\ hash_find_item(table, files, n) = 0
  /\ RenameFile(f, n)

\* rename_file (f, n) finds another node under n: the merge case
IsMerge(f, n) ==
  /\ f \in table
  /\ files[f].hname # n
  /\ hash_find_item(table, files, n) # 0
  /\ RenameFile(f, n)

\* C8 as claimed: a rename to an unused key re-keys from and every member
\* of its chain, moves the registry entry, creates no forwarding stub and
\* leaves from's edges, recipe, timestamp and flags unchanged.
C8_PureRekey ==
  [][\A f \in FileIds, n \in EnterNames :
       IsRekey(f, n)
         => /\ \A m \in ChainOf(files, f) : files'[m].hname = n
            /\ hash_find_item(table', files', n) = f
            /\ hash_find_item(table', files', files[f].hname) = 0
            /\ rehashed_files' = rehashed_files
            /\ \A m \in FileIds : files'[m].renamed = files[m].renamed
            /\ deps' = deps
            /\ files'[f].deps = files[f].deps
            /\ files'[f].cmds = files[f].cmds
            /\ files'[f].last_mtime = files[f].last_mtime
            /\ files'[f].flags = files[f].flags]_vars

\* C9 as claimed: when both nodes have distinct recipes the destination
\* keeps its own, a diagnostic is printed, and the operation completes with
\* the merge performed.
C9_ConflictCompletes ==
  [][\A f \in FileIds, n \in EnterNames :
       IsMerge(f, n)
         => LET to == hash_find_item(table, files, n)
                fc == files[f].cmds
                tc == files[to].cmds
            IN  (fc # 0 /\ tc # 0 /\ fc # tc)
                  => /\ files'[to].cmds = tc
                     /\ errors' > errors
                     /\ status' = "running"
                     /\ files'[f].renamed = to]_vars

\* C9 amended: in a merging rename to_file takes from_file's recipe only when it
\* has none, keeps its own otherwise (from_file without a recipe changes
\* nothing); two distinct recipes cost diagnostics but are not fatal: the
\* call ends in fatal() only for a colon mismatch and otherwise completes
\* the merge, leaving from_file forwarded to to_file.
C9_RecipeMerge ==
  [][\A f \in FileIds, n \in EnterNames :
       IsMerge(f, n)
         => LET to == hash_find_item(table, files, n)
                fc == files[f].cmds
                tc == files[to].cmds
                conflict == fc # 0 /\ tc # 0 /\ fc # tc
                mismatch ==
                  \/ files[to].double_colon # 0 /\ files[f].double_colon = 0
                       /\ "is_target" \in files[f].flags
                  \/ files[to].double_colon = 0 /\ files[f].double_colon # 0
                       /\ "is_target" \in files[to].flags
            IN  /\ files'[to].cmds = (IF tc = 0 THEN fc ELSE tc)
                /\ files'[f].cmds = fc
                /\ conflict => errors' > errors
                /\ ~conflict => errors' = errors
                /\ status' = (IF mismatch THEN "fatal" ELSE "running")
                /\ status' = "running"
                     => /\ files'[f].renamed = to
                        /\ to \in table'
                        /\ f \notin table']_vars

\* C9 witness: a merge of two nodes with distinct recipes has completed
\* after printing the diagnostics, and the destination kept its recipe.
C9_Witness ==
  /\ op = OpRec("rename_file", "merge")
  /\ status = "running"
  /\ errors > 0
  /\ LET from == rehashed_files[Len(rehashed_files)]
         to == files[from].renamed
     IN  /\ files[from].cmds # 0
         /\ files[to].cmds # 0
         /\ files[to].cmds # files[from].cmds

\* a struct dep without its list link
Cell(d) == [d EXCEPT !.next = 0]

\* C10: after a merging rename to_file's edge list is its previous edges
\* followed by from_file's edges, each group in its order, and no edge is
\* changed, lost or duplicated; either list may be empty.
C10_DepsConcatenated ==
  [][\A f \in FileIds, n \in EnterNames :
       IsMerge(f, n)
         => LET to == hash_find_item(table, files, n)
            IN  /\ DepList(deps', files'[to].deps)
                     = DepList(deps, files[to].deps)
                         \o DepList(deps, files[f].deps)
                /\ Len(deps') = Len(deps)
                /\ \A d \in 1..Len(deps) : Cell(deps'[d]) = Cell(deps[d])]_vars

\* C10 witness: a node with one edge has been merged into a node that had
\* two, which now has three.
C10_Witness ==
  /\ op = OpRec("rename_file", "merge")
  /\ status = "running"
  /\ LET from == rehashed_files[Len(rehashed_files)]
         to == files[from].renamed
     IN  /\ Len(DepList(deps, files[from].deps)) = 1
         /\ Len(DepList(deps, files[to].deps)) = 3


(***************************************************************************)
(* Properties of the flag merge (SpecFlags).                               *)
(***************************************************************************)
Has(fs, f, g) == g \in fs[f].flags

\* C11: a merging rename never changes to_file's intermediate flag; merging
\* a node with a recipe and phony (intermediate or not) into a node without
\* recipe that is precious and not intermediate leaves the latter with that
\* recipe, phony and precious, and still not intermediate.
C11_IntermediateNotMerged ==
  [][\A f \in FileIds, n \in MergeNames :
       IsMerge(f, n)
         => LET to == hash_find_item(table, files, n)
            IN  /\ Has(files', to, "intermediate")
                     = Has(files, to, "intermediate")
                /\ (/\ files[f].cmds # 0
                    /\ Has(files, f, "phony")
                    /\ files[to].cmds = 0
                    /\ Has(files, to, "precious")
                    /\ ~Has(files, to, "intermediate")
                    /\ status' = "running")
                     => /\ files'[to].cmds = files[f].cmds
                        /\ Has(files', to, "phony")
                        /\ Has(files', to, "precious")
                        /\ ~Has(files', to, "intermediate")]_vars

\* C11 witness: a node that is intermediate and phony and has a recipe has
\* been merged into another, which now has the recipe and phony but is not
\* intermediate.
C11_Witness ==
  /\ op = OpRec("rename_file", "merge")
  /\ status = "running"
  /\ LET from == rehashed_files[Len(rehashed_files)]
         to == files[from].renamed
     IN  /\ Has(files, from, "intermediate")
         /\ Has(files, from, "phony")
         /\ files[from].cmds # 0
         /\ files[to].cmds = files[from].cmds
         /\ Has(files, to, "phony")
         /\ ~Has(files, to, "intermediate")

\* the flags C12 names
C12Flags ==
  {"is_target", "phony", "precious", "secondary", "notintermediate",
   "dontcare", "cmd_target", "is_explicit", "builtin", "tried_implicit",
   "snapped", "low_resolution_time", "ignore_vpath"}

\* C12 as claimed: in a merging rename that completes, each of the thirteen
\* flags of to_file afterwards is its value before ORed with from_file's.
C12_AllFlagsOred ==
  [][\A f \in FileIds, n \in MergeNames :
       (IsMerge(f, n) /\ status' = "running")
         => LET to == hash_find_item(table, files, n)
            IN  \A g \in C12Flags :
                   Has(files', to, g)
                     = (Has(files, to, g) \/ Has(files, f, g))]_vars

\* C12 amended: in a merging rename that completes, is_target, phony,
\* precious, secondary, notintermediate, cmd_target, is_explicit,
\* tried_implicit, snapped and ignore_vpath of to_file become its value ORed
\* with from_file's; dontcare, low_resolution_time and intermediate of to_file
\* keep their value; builtin ends cleared on both nodes; from_file's other
\* flags are unchanged.
C12_MergeListOred ==
  [][\A f \in FileIds, n \in MergeNames :
       (IsMerge(f, n) /\ status' = "running")
         => LET to == hash_find_item(table, files, n)
            IN  /\ \A g \in C12Flags \ {"dontcare", "low_resolution_time",
                                         "builtin"} :
                      Has(files', to, g)
                        = (Has(files, to, g) \/ Has(files, f, g))
                /\ \A g \in {"dontcare", "low_resolution_time",
                              "intermediate"} :
                      Has(files', to, g) = Has(files, to, g)
                /\ ~Has(files', to, "builtin")
                /\ ~Has(files', f, "builtin")
                /\ files'[f].flags = files[f].flags \ {"builtin"}]_vars

\* C12 witness: a node that is phony and dontcare has been merged into
\* another, which is now phony but not dontcare.
C12_Witness ==
  /\ op = OpRec("rename_file", "merge")
  /\ status = "running"
  /\ LET from == rehashed_files[Len(rehashed_files)]
         to == files[from].renamed
     IN  /\ Has(files, from, "phony")
         /\ Has(files, from, "dontcare")
         /\ Has(files, to, "phony")
         /\ ~Has(files, to, "dontcare")

(***************************************************************************)
(* Properties of the colon check and of the forwarding list.               *)
(***************************************************************************)
\* C13: a merging rename ends in fatal() exactly when from_file is a
\* single-colon is_target node and to_file is double-colon, or from_file is
\* double-colon and to_file is a single-colon is_target node; when to_file is
\* single-colon and not a target and from_file is double-colon, to_file takes
\* over from_file's double_colon chain and the merge completes.
C13_FatalIffColonMismatch ==
  [][\A f \in FileIds, n \in EnterNames :
       IsMerge(f, n)
         => LET to == hash_find_item(table, files, n)
                fromSingle == files[f].double_colon = 0
                toSingle == files[to].double_colon = 0
                mismatch ==
                  \/ fromSingle /\ Has(files, f, "is_target") /\ ~toSingle
                  \/ ~fromSingle /\ toSingle /\ Has(files, to, "is_target")
            IN  /\ (status' = "fatal") = mismatch
                /\ ~mismatch => status' = "running"
                /\ (~fromSingle /\ toSingle /\ ~Has(files, to, "is_target"))
                     => /\ files'[to].double_colon = files[f].double_colon
                        /\ files'[f].renamed = to
                /\ (~mismatch /\ ~toSingle)
                     => files'[to].double_colon = files[to].double_colon]_vars

\* C13 witness: a rename of a single-colon target onto a double-colon node
\* has ended in fatal().
C13_Witness ==
  /\ op = OpRec("rename_file", "fatal")
  /\ status = "fatal"
  /\ \E f \in FileIds, to \in table :
       /\ f \notin table
       /\ files[f].hname = files[to].hname
       /\ files[f].double_colon = 0
       /\ Has(files, f, "is_target")
       /\ files[to].double_colon # 0
       /\ files[f].renamed = 0

IsPrefix(s, t) == Len(s) <= Len(t) /\ SubSeq(t, 1, Len(s)) = s

\* C14: a merging rename that completes leaves from_file forwarded to
\* to_file and appended to rehashed_files; no step ever removes an entry of
\* rehashed_files or changes a forwarding link once set; a pure re-key adds
\* nothing to rehashed_files and creates no forwarding link.
C14_ForwardingPermanent ==
  [][/\ \A f \in FileIds, n \in EnterNames :
          (IsMerge(f, n) /\ status' = "running")
            => /\ files'[f].renamed = hash_find_item(table, files, n)
               /\ rehashed_files' = Append(rehashed_files, f)
     /\ \A f \in FileIds, n \in EnterNames :
          IsRekey(f, n)
            => /\ rehashed_files' = rehashed_files
               /\ \A m \in FileIds : files'[m].renamed = files[m].renamed
     /\ IsPrefix(rehashed_files, rehashed_files')
     /\ \A m \in FileIds :
          files[m].renamed # 0 => files'[m].renamed = files[m].renamed
     /\ \A i \in 1..Len(rehashed_files') :
          files'[rehashed_files'[i]].renamed # 0]_vars

\* C14 witness: two merging renames have completed; both renamed-away nodes
\* are on the list, in order, and forward to the surviving node.
C14_Witness ==
  /\ op = OpRec("rename_file", "merge")
  /\ status = "running"
  /\ Len(rehashed_files) = 2
  /\ rehashed_files[1] # rehashed_files[2]
  /\ files[rehashed_files[1]].renamed = rehashed_files[2]
  /\ check_renamed(files, rehashed_files[1]) = files[rehashed_files[2]].renamed

(***************************************************************************)
(* Properties of split_prereqs (SpecSplit).                                *)
(***************************************************************************)
\* the blank-separated words of s, collected character by character
RECURSIVE WordsFrom(_, _, _)
WordsFrom(s, cur, acc) ==
  IF s = <<>> THEN (IF cur = <<>> THEN acc ELSE Append(acc, cur))
  ELSE IF s[1] = Blank
  THEN WordsFrom(Tail(s), <<>>, IF cur = <<>> THEN acc ELSE Append(acc, cur))
  ELSE WordsFrom(Tail(s), Append(cur, s[1]), acc)

WordsOf(s) == WordsFrom(s, <<>>, <<>>)

\* index of the first '|' of s, Len(s) + 1 when there is none
FirstPipe(s) ==
  LET ps == {i \in 1..Len(s) : s[i] = Pipe}
  IN  IF ps = {} THEN Len(s) + 1 ELSE CHOOSE i \in ps : \A j \in ps : i <= j

BeforePipe(s) == SubSeq(s, 1, FirstPipe(s) - 1)
AfterPipe(s) == SubSeq(s, FirstPipe(s) + 1, Len(s))

\* the names of a struct dep list, and which of them are order-only
NamesOf(ds, head) ==
  LET l == DepList(ds, head) IN [i \in 1..Len(l) |-> ds[l[i]].name]
OrderOnlyOf(ds, head) ==
  LET l == DepList(ds, head) IN [i \in 1..Len(l) |-> ds[l[i]].ignore_mtime]

\* C15: split_prereqs returns the names of the text in textual order: the
\* words before the first '|' not order-only, then the words after it all
\* order-only, later '|' being ordinary characters; "a b | c d" gives
\* a, b, c, d with exactly c and d order-only and "| c" gives c order-only.
C15_SplitAtFirstPipe ==
  op.name = "split_prereqs" =>
    LET before == WordsOf(BeforePipe(ptext))
        after == WordsOf(AfterPipe(ptext))
    IN  /\ NamesOf(deps, ret) = before \o after
        /\ OrderOnlyOf(deps, ret)
             = [i \in 1..(Len(before) + Len(after)) |-> i > Len(before)]
        /\ ptext = TextABCD
             => /\ NamesOf(deps, ret) = <<<<"a">>, <<"b">>, <<"c">>, <<"d">>>>
                /\ OrderOnlyOf(deps, ret) = <<FALSE, FALSE, TRUE, TRUE>>
        /\ ptext = TextPipeC
             => /\ NamesOf(deps, ret) = <<<<"c">>>>
                /\ OrderOnlyOf(deps, ret) = <<TRUE>>

\* C15 witness: "a b | c d" has been split into four edges, the last two
\* order-only.
C15_Witness ==
  /\ op.name = "split_prereqs"
  /\ ptext = TextABCD
  /\ Len(DepList(deps, ret)) = 4
  /\ OrderOnlyOf(deps, ret) = <<FALSE, FALSE, TRUE, TRUE>>

(***************************************************************************)
(* Properties of enter_prereqs (SpecRules).                                *)
(***************************************************************************)
\* name with its first '%' replaced by the whole stem
LiteralSubst(name, st) ==
  LET i == find_percent(name)
  IN  IF i = 0 THEN name
      ELSE SubSeq(name, 1, i - 1) \o st.stem \o Tail0(name, i)

\* name with its first '%' replaced by the non-directory part of the stem,
\* behind the directory part of the stem
DirSubst(name, st) ==
  LET i == find_percent(name)
  IN  IF i = 0 \/ st = NoStem THEN name
      ELSE SubSeq(st.stem, 1, st.base) \o SubSeq(name, 1, i - 1)
             \o Tail0(st.stem, st.base) \o Tail0(name, i)

KeptCells(cells, st) == SelectSeq(cells, LAMBDA c : DirSubst(c.name, st) # <<>>)

\* the name an edge stands for: its own, or that of the node it refers to
EdgeName(ds, fs, d) ==
  IF ds[d].name # NullStr THEN ds[d].name ELSE fs[ds[d].file].hname

\* the step in which enter_prereqs is handed a rule
RuleEntered == rule = <<>> /\ rule' # <<>>

\* C16 as claimed: with a stem, every edge of the returned list stands for
\* its name with the marker replaced by the stem, the edges whose name
\* became empty being gone and the others in their order.
C16_MarkerReplacedByStem ==
  (rule # <<>> /\ rule.st # NoStem) =>
    LET kept == SelectSeq(rule.cells,
                          LAMBDA c : LiteralSubst(c.name, rule.st) # <<>>)
        l == DepList(deps, ret)
    IN  /\ status = "running"
        /\ Len(l) = Len(kept)
        /\ \A i \in 1..Len(l) :
              EdgeName(deps, files, l[i]) = LiteralSubst(kept[i].name, rule.st)

\* C16 amended: with a stem, every edge of the returned list stands for its
\* name with the first marker replaced by the non-directory part of the stem
\* and the directory part of the stem put in front of the name (names
\* without marker are unchanged); the edges whose name became empty are
\* gone, no error is raised, and the others are the same cells in their
\* order.
C16_StemSubstituted ==
  (rule # <<>> /\ rule.st # NoStem) =>
    LET cells == rule.cells
        kept == KeptCells(cells, rule.st)
        l == DepList(deps, ret)
        idx == SelectSeq([i \in 1..Len(cells) |-> i],
                         LAMBDA i : DirSubst(cells[i].name, rule.st) # <<>>)
    IN  /\ status = "running"
        /\ errors = 0
        /\ l = idx
        /\ \A i \in 1..Len(l) :
              EdgeName(deps, files, l[i]) = DirSubst(kept[i].name, rule.st)

\* C16 witness: a rule with a stem had three edges; the middle one came out
\* empty and the returned list is the first and the third.
C16_Witness ==
  /\ op = OpRec("enter_prereqs", "stem")
  /\ status = "running"
  /\ Len(deps) = 3
  /\ DepList(deps, ret) = <<1, 3>>
  /\ rule.cells[2].name = NamePct
  /\ rule.cells[1].name = NameAPct

\* C17 as claimed: after enter_prereqs every edge of the returned list
\* refers to a registry node under the edge's name, marked is_explicit
\* exactly when the owner has no stem.
C17_AllEdgesResolved ==
  rule # <<>> =>
    LET kept == KeptCells(rule.cells, rule.st)
        l == DepList(deps, ret)
    IN  /\ Len(l) = Len(kept)
        /\ \A i \in 1..Len(l) :
              LET d == deps[l[i]]
              IN  /\ d.file \in 1..Len(files)
                  /\ files[d.file].hname = DirSubst(kept[i].name, rule.st)
                  /\ Has(files, d.file, "is_explicit") = (rule.st = NoStem)

\* C17 amended: after enter_prereqs every edge of the returned list that
\* does not need second expansion refers to the node lookup_file finds for
\* its name or, when there is none, to a node enter_file creates for it, and
\* has its name cleared; that node gets is_explicit exactly when there is no
\* owner or the owner has no stem; an edge that needs second expansion
\* keeps its name and refers to no node.
C17_ResolvedUnlessSecondExpansion ==
  [][RuleEntered =>
       LET st == rule'.st
           kept == KeptCells(rule'.cells, st)
           l == DepList(deps', ret')
           fresh == {DirSubst(kept[i].name, st) :
                       i \in {k \in 1..Len(kept) :
                                /\ ~kept[k].need2nd
                                /\ lookup_file(table, files,
                                      DirSubst(kept[k].name, st)) = 0}}
       IN  /\ Len(l) = Len(kept)
           /\ Len(files') = Len(files) + Cardinality(fresh)
           /\ \A i \in 1..Len(l) :
                 LET d == deps'[l[i]]
                     nm == DirSubst(kept[i].name, st)
                     found == lookup_file(table, files, nm)
                 IN  IF kept[i].need2nd
                     THEN d.file = 0 /\ d.name = nm
                     ELSE /\ d.name = NullStr
                          /\ d.file \in 1..Len(files')
                          /\ files'[d.file].hname = nm
                          /\ found # 0 => d.file = found
                          /\ found = 0 => /\ d.file > Len(files)
                                          /\ d.file \in table'
                          /\ Has(files', d.file, "is_explicit")
                               = \/ st = NoStem
                                 \/ /\ d.file <= Len(files)
                                    /\ Has(files, d.file, "is_explicit")]_vars

\* C17 witness: a rule without stem was entered; one edge waits for second
\* expansion and refers to no node, another refers to the head of a
\* double-colon chain that existed before and is now is_explicit.
C17_Witness ==
  /\ op = OpRec("enter_prereqs", "plain")
  /\ status = "running"
  /\ \E d1, d2 \in SeqToSet(DepList(deps, ret)) :
       /\ deps[d1].need_2nd_expansion
       /\ deps[d1].file = 0
       /\ deps[d2].file # 0
       /\ files[deps[d2].file].double_colon = deps[d2].file
       /\ Len(PrevChain(files, deps[d2].file)) = 1
       /\ Has(files, deps[d2].file, "is_explicit")

(***************************************************************************)
(* Second expansion: expand_deps.                                          *)
(***************************************************************************)
\* the nodes that have a suspended expand_deps call
Expanding(st) == {st[i].fr.f : i \in 1..Len(st)}

\* C18: second expansion does work at most once per node: snapped is never
\* cleared, every node with an expansion under way has snapped set and has
\* one call only, and expand_deps on a node that has snapped set or is
\* being expanded returns without changing the dep list of the node.
C18_ExpandsAtMostOnce ==
  [][/\ \A f \in FileIds :
          Has(files, f, "snapped") => Has(files', f, "snapped")
     /\ \A i \in 1..Len(stack') : Has(files', stack'[i].fr.f, "snapped")
     /\ \A i, j \in 1..Len(stack') :
          stack'[i].fr.f = stack'[j].fr.f => i = j
     /\ \A i \in 1..Len(xlog') : Has(files', xlog'[i].f, "snapped")
     /\ \A f \in FileIds :
          (/\ ExpandCall(f)
           /\ Has(files, f, "snapped") \/ f \in Expanding(stack))
            => /\ deps' = deps
               /\ files'[f].deps = files[f].deps
               /\ stack' = stack
               /\ xlog' = xlog]_vars

\* C18 witness: the only node there is has its first dep under expansion,
\* and a nested expand_deps call on it has just returned at once.
C18_Witness ==
  /\ op = OpRec("expand_deps", "skipped")
  /\ Len(stack) = 1
  /\ FileIds = {stack[1].fr.f}
  /\ files[stack[1].fr.f].deps = stack[1].fr.d
  /\ deps[stack[1].fr.d].need_2nd_expansion

\* an edge expand_deps leaves alone
Ready(cell) == cell.name = NullStr \/ ~cell.need_2nd_expansion

\* what the text of one expansion stands for: the words before the first
\* '|', then the words after it, order-only; dirname in front of each
RefProduced(e) ==
  LET before == WordsOf(BeforePipe(e.text))
      all == before \o WordsOf(AfterPipe(e.text))
  IN  [i \in 1..Len(all) |->
         [old |-> 0, cell |-> <<>>,
          name |-> IF e.dirname = NullStr THEN all[i] ELSE e.dirname \o all[i],
          order_only |-> e.order_only \/ i > Len(before)]]

\* the edges produced for dep d, in the order the journal has them
RECURSIVE ProducedBy(_, _)
ProducedBy(d, log) ==
  IF log = <<>> THEN <<>>
  ELSE (IF Head(log).d = d THEN RefProduced(Head(log)) ELSE <<>>)
       \o ProducedBy(d, Tail(log))

\* the list expand_deps has to leave: old edges kept, expanded ones replaced
RECURSIVE Expected(_, _)
Expected(orig, log) ==
  IF orig = <<>> THEN <<>>
  ELSE (IF Ready(Head(orig).cell)
        THEN <<[old |-> Head(orig).id, cell |-> Head(orig).cell,
                name |-> <<>>, order_only |-> FALSE]>>
        ELSE ProducedBy(Head(orig).id, log))
       \o Expected(Tail(orig), log)

Unlinked(cell) == [cell EXCEPT !.next = 0]

ExpandReturned ==
  op \in {OpRec("expand_deps", "done"), OpRec("second_expand_dep", "done")}

\* C19: when expand_deps (f) returns, the dep list of f is the list it
\* found with every dep that needed expansion replaced, where it stood, by
\* the deps its expansions produced, in the order produced; the deps that
\* did not need expansion are the same struct dep, unchanged, same order.
C19_SplicedInPlace ==
  ExpandReturned =>
    LET f == xdone.f
        got == DepList(deps, files[f].deps)
        want == Expected(xdone.orig, xlog)
        old == {xdone.orig[i].id : i \in 1..Len(xdone.orig)}
    IN  /\ Len(got) = Len(want)
        /\ \A i \in 1..Len(got) :
             IF want[i].old # 0
             THEN /\ got[i] = want[i].old
                  /\ Unlinked(deps[got[i]]) = Unlinked(want[i].cell)
             ELSE /\ got[i] \notin old
                  /\ deps[got[i]].file \in FileIds
                  /\ files[deps[got[i]].file].name = want[i].name
                  /\ deps[got[i]].ignore_mtime = want[i].order_only

\* C19 witness: expand_deps has returned for a list of three deps of which
\* the second was expanded to "b a"; the list now has four deps.
C19_Witness ==
  /\ ExpandReturned
  /\ Len(xdone.orig) = 3
  /\ Ready(xdone.orig[1].cell)
  /\ ~Ready(xdone.orig[2].cell)
  /\ Ready(xdone.orig[3].cell)
  /\ \E i \in 1..Len(xlog) :
        xlog[i].d = xdone.orig[2].id /\ xlog[i].text = TextBA
  /\ Len(DepList(deps, files[xdone.f].deps)) = 4

\* s without its element at index k
DropAt(s, k) == SubSeq(s, 1, k - 1) \o SubSeq(s, k + 1, Len(s))

\* the step in which the whole template of a dep has expanded to ""
ExpandedToEmpty ==
  /\ Len(xlog') = Len(xlog) + 1
  /\ xlog'[Len(xlog')].text = <<>>
  /\ \A i \in 1..Len(xlog) : xlog[i].d # xlog'[Len(xlog')].d
  /\ \A i \in 1..Len(stack') : stack'[i].fr.d # xlog'[Len(xlog')].d

\* C20: when the template of a dep expands to the empty string, the dep is
\* taken out of the list and nothing is put in its place, wherever in the
\* list it stood: the list is one shorter, the other deps are kept in their
\* order, and no error is raised.
C20_EmptyExpansionDropsEdge ==
  [][ExpandedToEmpty =>
       LET e == xlog'[Len(xlog')]
           before == DepList(deps, files[e.f].deps)
           after == DepList(deps', files'[e.f].deps)
       IN  /\ \E k \in 1..Len(before) :
                before[k] = e.d /\ after = DropAt(before, k)
           /\ Len(after) = Len(before) - 1
           /\ status' = "running"
           /\ errors' = errors]_vars

\* C20 witness: of three deps the first and the last were templates, both
\* expanded to "", and expand_deps returned with the second dep alone.
C20_Witness ==
  /\ ExpandReturned
  /\ status = "running"
  /\ Len(xdone.orig) = 3
  /\ ~Ready(xdone.orig[1].cell)
  /\ Ready(xdone.orig[2].cell)
  /\ ~Ready(xdone.orig[3].cell)
  /\ Len(xlog) = 2
  /\ \A i \in 1..2 : xlog[i].text = <<>>
  /\ DepList(deps, files[xdone.f].deps) = <<xdone.orig[2].id>>

(***************************************************************************)
(* Second expansion of static pattern rules.                               *)
(***************************************************************************)
\* the journal entries of dep d, oldest first
RECURSIVE LogOf(_, _)
LogOf(d, log) ==
  IF log = <<>> THEN <<>>
  ELSE (IF Head(log).d = d THEN <<Head(log)>> ELSE <<>>) \o LogOf(d, Tail(log))

HasPercent(w) == \E i \in 1..Len(w) : w[i] = Percent

\* the edges the words of a template stand for, given the texts their
\* expansions returned, oldest first: the first "|" word gives no edge and
\* turns order-only on; a word with '%' has the directory of the stem put
\* in front of its names; a word left without a text gives a mismatch
RECURSIVE WordEdges(_, _, _, _)
WordEdges(words, oo, log, dir) ==
  IF words = <<>>
  THEN [i \in 1..Len(log) |->
          [old |-> -1, cell |-> <<>>, name |-> <<>>, order_only |-> FALSE]]
  ELSE IF ~oo /\ Head(words) = <<Pipe>>
  THEN WordEdges(Tail(words), TRUE, log, dir)
  ELSE IF log = <<>>
  THEN <<[old |-> -1, cell |-> <<>>, name |-> <<>>, order_only |-> FALSE]>>
  ELSE RefProduced([text |-> Head(log).text, order_only |-> oo,
                    dirname |-> IF HasPercent(Head(words)) THEN dir
                                ELSE NullStr])
       \o WordEdges(Tail(words), oo, Tail(log), dir)

IsTemplate(cell) ==
  ~Ready(cell) /\ cell.staticpattern /\ HasPercent(cell.name)

\* the list expand_deps has to leave when templates are taken word by word
RECURSIVE ExpectedWords(_, _)
ExpectedWords(orig, log) ==
  IF orig = <<>> THEN <<>>
  ELSE LET o == Head(orig)
       IN  (IF Ready(o.cell)
            THEN <<[old |-> o.id, cell |-> o.cell, name |-> <<>>,
                    order_only |-> FALSE]>>
            ELSE IF IsTemplate(o.cell)
            THEN WordEdges(WordsOf(o.cell.name), FALSE, LogOf(o.id, log),
                           o.cell.stem_dirname)
            ELSE ProducedBy(o.id, log))
           \o ExpectedWords(Tail(orig), log)

\* C21: the words of a static-pattern template are expanded one by one
\* from left to right; a word that is a literal "|" gives no edge and makes
\* the edges of all later words order-only; the edges of the words stand
\* in the list of the node in word order, where the template stood.
C21_WordsLeftToRight ==
  ExpandReturned =>
    LET f == xdone.f
        got == DepList(deps, files[f].deps)
        want == ExpectedWords(xdone.orig, xlog)
    IN  /\ Len(got) = Len(want)
        /\ \A i \in 1..Len(got) :
             IF want[i].old # 0
             THEN got[i] = want[i].old
             ELSE /\ deps[got[i]].file \in FileIds
                  /\ files[deps[got[i]].file].name = want[i].name
                  /\ deps[got[i]].ignore_mtime = want[i].order_only
        /\ \A i \in 1..Len(xlog) :
             xlog[i].arg = <<Pipe>> => RefProduced(xlog[i]) = <<>>

\* C21 witness: the template "/a | %" was expanded, its last word to
\* "b a": the list is /a, then /b and /a order-only.
C21_Witness ==
  /\ ExpandReturned
  /\ Len(xdone.orig) = 1
  /\ xdone.orig[1].cell.name = <<"/", "a", " ", "|", " ", "%">>
  /\ Len(xlog) = 2
  /\ xlog[2].text = TextBA
  /\ LET got == DepList(deps, files[xdone.f].deps)
     IN  /\ Len(got) = 3
         /\ [i \in 1..3 |-> deps[got[i]].ignore_mtime] = <<FALSE, TRUE, TRUE>>

(***************************************************************************)
(* Second expansion: the edges second_expand_dep enters.                   *)
(***************************************************************************)
\* an expansion has returned and second_expand_dep has run
Expanded == Len(xlog') = Len(xlog) + 1

\* the new edges of the step are resolved, carry the captured stem, and
\* their targets are marked explicit exactly when STEM is absent
EdgesEntered(e, stem) ==
  LET want == RefProduced(e)
      dstem == deps[e.d].stem
  IN  /\ Len(deps') = Len(deps) + Len(want)
      /\ \A i \in 1..Len(want) :
           LET n == deps'[Len(deps) + i]
           IN  /\ n.file \in 1..Len(files')
               /\ n.file = lookup_file(table', files', want[i].name)
               /\ n.name = NullStr
               /\ n.stem = dstem
               /\ Has(files', n.file, "is_explicit")
                    <=> \/ stem = NullStr
                        \/ /\ n.file \in FileIds
                           /\ Has(files, n.file, "is_explicit")

\* C22 as stated: the targets are marked explicit only when the stem bound
\* for the expansion, d->stem if there is one and else f->stem, is absent.
C22_ExplicitIffNoBoundStem ==
  [][Expanded =>
       LET e == xlog'[Len(xlog')]
       IN  EdgesEntered(e, IF deps[e.d].stem # NullStr THEN deps[e.d].stem
                           ELSE files[e.f].stem)]_vars

\* C22: each edge second_expand_dep makes refers to the node lookup_file
\* finds for its name, entered first if there was none, has the stem of
\* the dep that was expanded, and its node is marked explicit exactly when
\* that dep has no stem, whatever the stem of the node being expanded.
C22_ExplicitIffNoCapturedStem ==
  [][Expanded =>
       LET e == xlog'[Len(xlog')] IN EdgesEntered(e, deps[e.d].stem)]_vars

\* C22 witness: a dep without a stem was expanded to "b" for a node that
\* has a stem, and b is marked explicit.
C22_Witness ==
  /\ op.name = "second_expand_dep"
  /\ Len(xlog) = 1
  /\ xlog[1].text = TextB
  /\ files[xlog[1].f].stem = NameA
  /\ deps[xlog[1].d].stem = NullStr
  /\ \E n \in 1..Len(deps) :
        /\ deps[n].name = NullStr
        /\ deps[n].file \in FileIds
        /\ files[deps[n].file].name = TextB
        /\ Has(files, deps[n].file, "is_explicit")
        /\ deps[n].stem = NullStr

(***************************************************************************)
(* Second expansion: calls made from inside an expansion.                  *)
(***************************************************************************)
\* what the k-th suspended call holds: its frame, and the dep list of its
\* node with the contents of the deps
Held(st, ds, fs, k) ==
  LET l == DepList(ds, fs[st[k].fr.f].deps)
  IN  [call |-> st[k], list |-> l, cells |-> [i \in 1..Len(l) |-> ds[l[i]]]]

\* the list of the node whose call has returned is what its texts stand
\* for, each edge refers to the node lookup_file finds for its name, and
\* no struct dep is in the list twice
SplicedAsAlone ==
  ExpandReturned =>
    LET f == xdone.f
        got == DepList(deps, files[f].deps)
        want == Expected(xdone.orig, xlog)
    IN  /\ Len(got) = Len(want)
        /\ \A i, j \in 1..Len(got) : got[i] = got[j] => i = j
        /\ \A i \in 1..Len(got) :
             IF want[i].old # 0
             THEN got[i] = want[i].old
             ELSE /\ deps[got[i]].file
                       = lookup_file(table, files, want[i].name)
                  /\ deps[got[i]].file # 0

\* C23: while a dep of node A is being expanded, entering or looking up a
\* file and calling expand_deps for another node leave the suspended call
\* of A and the list of A as they are, and when the call of A returns its
\* list is what the texts of its own expansions stand for, whatever was
\* done in between: no edge of A is lost or there twice.
C23_NestedCallsLeaveSplice ==
  [][/\ \A k \in 1..Len(stack) :
          (k > 1 \/ xlog' = xlog)
            => LET k2 == k + Len(stack') - Len(stack)
               IN  /\ k2 \in 1..Len(stack')
                   /\ Held(stack', deps', files', k2)
                        = Held(stack, deps, files, k)
     /\ SplicedAsAlone']_vars

\* C23 witness: the call for node A has returned; its first dep was
\* expanded, then, while its second dep was being expanded, a dep of
\* another node was expanded by a nested call, then its second dep.
C23_Witness ==
  /\ ExpandReturned
  /\ Len(xlog) = 3
  /\ xlog[1].f = xdone.f
  /\ xlog[2].f # xdone.f
  /\ xlog[3].f = xdone.f
  /\ xlog[1].d # xlog[3].d
  /\ xlog[1].text = TextB
  /\ xlog[2].text = TextBA
  /\ xlog[3].text = TextBA
  /\ Len(DepList(deps, files[xdone.f].deps)) = 3

(***************************************************************************)
(* C24: snap_deps runs at most once: snapped_deps goes from unset to set   *)
(* and never back, and a call made when it is set is rejected: it changes  *)
(* no flag of a file, no global flag and no dep list.                      *)
(***************************************************************************)
\* the dep list of f: the file and the marks of each dep, in order
EdgeList(fs, ds, f) ==
  LET l == DepList(ds, fs[f].deps)
  IN  [i \in 1..Len(l) |-> [ds[l[i]] EXCEPT !.next = 0]]

\* C24: snapped_deps stays set and a snap_deps call made when it is set
\* changes no flag of a file, no dep list and no global
C24_SecondCallRejected ==
  [][/\ globals.snapped_deps => globals'.snapped_deps
     /\ (op'.name = "snap_deps" /\ globals.snapped_deps)
          => /\ \A f \in FileIds :
                  /\ files'[f].flags = files[f].flags
                  /\ EdgeList(files', deps', f) = EdgeList(files, deps, f)
             /\ globals' = globals]_vars

\* the part of C24 the code keeps: snapped_deps is set by the first call and
\* stays set
C24_SnappedForGood ==
  [][/\ globals.snapped_deps => globals'.snapped_deps
     /\ op'.name = "snap_deps" => globals'.snapped_deps]_vars

(***************************************************************************)
(* C28: when snap_file has extra prerequisites for a file and one of them  *)
(* has the file's own name, all of them are thrown away and the file's dep *)
(* list stays as it is; otherwise all of them are put after the deps the   *)
(* file has, in their order.                                               *)
(***************************************************************************)
\* the names a value of .EXTRA_PREREQS stands for
ExtraNames(text) ==
  CASE text = NullStr -> <<>>
    [] text = TextA -> <<NameA>>
    [] text = TextB -> <<NameB>>
    [] text = TextCA -> <<NameC, NameA>>

\* the extra prerequisites snap_file has for f when .EXTRA_PREREQS is GLOBAL
Batch(f, global) ==
  IF files[f].variables # 0 THEN ExtraNames(files[f].extra_prereqs)
  ELSE IF "is_target" \in files[f].flags THEN ExtraNames(global)
  ELSE <<>>

InBatch(f, global) ==
  \E i \in 1..Len(Batch(f, global)) : Batch(f, global)[i] = files[f].name

\* C28: at every snap_deps call the dep list of a file of the table is left
\* as it is if the batch holds the file's name, else the batch follows it
C28_SelfCycleDropsBatch ==
  [][(op'.name = "snap_deps" /\ status' = "running") =>
       \A f \in table :
         LET old == EdgeList(files, deps, f)
             new == EdgeList(files', deps', f)
             batch == Batch(f, ptext')
         IN  IF InBatch(f, ptext') THEN new = old
             ELSE /\ Len(new) = Len(old) + Len(batch)
                  /\ SubSeq(new, 1, Len(old)) = old
                  /\ \A i \in 1..Len(batch) :
                       LET c == new[Len(old) + i]
                       IN  /\ files'[c.file].name = batch[i]
                           /\ lookup_file(table', files', batch[i]) = c.file
                           /\ c.ignore_automatic_vars]_vars

\* .EXTRA_PREREQS = c a, the targets a: b and b: have been snapped once:
\* a has kept its list, b has got c and a
C28_Witness ==
  /\ op = OpRec("snap_deps", "first")
  /\ ptext = TextCA
  /\ \E a, b \in table :
       /\ files[a].name = NameA
       /\ files[b].name = NameB
       /\ {"is_target"} \subseteq files[a].flags \cap files[b].flags
       /\ files[a].variables = 0
       /\ files[b].variables = 0
       /\ Len(EdgeList(files, deps, a)) = 1
       /\ EdgeList(files, deps, a)[1].file = b
       /\ Len(EdgeList(files, deps, b)) = 2
       /\ files[EdgeList(files, deps, b)[1].file].name = NameC
       /\ EdgeList(files, deps, b)[2].file = a

(***************************************************************************)
(* C25: snap_deps ends in fatal() whenever a target is a prerequisite of   *)
(* .NOTINTERMEDIATE and of .INTERMEDIATE or .SECONDARY, whichever was      *)
(* declared first, and that target is not marked intermediate.             *)
(***************************************************************************)
\* the files whose name is a prerequisite of the special target NAME
NamedBy(name) ==
  {t \in FileIds :
     \E sp \in FileIds :
       /\ files[sp].name = name
       /\ \E i \in 1..Len(EdgeList(files, deps, sp)) :
            files[EdgeList(files, deps, sp)[i].file].name = files[t].name}

Conflicting ==
  NamedBy(NameNOTINTERMEDIATE)
    \cap (NamedBy(NameINTERMEDIATE) \cup NamedBy(NameSECONDARY))

\* C25: a prerequisite of .NOTINTERMEDIATE and of .INTERMEDIATE or .SECONDARY
\* makes snap_deps fatal and is not marked intermediate
C25_ConflictIsFatal ==
  (op.name = "snap_deps" /\ Conflicting # {}) =>
     /\ status = "fatal"
     /\ \A t \in Conflicting : "intermediate" \notin files[t].flags

\* .NOTINTERMEDIATE was declared after .SECONDARY, both name one target
C25_Witness ==
  /\ op.name = "snap_deps"
  /\ status = "fatal"
  /\ \E n, sec \in FileIds :
       /\ files[n].name = NameNOTINTERMEDIATE
       /\ files[sec].name = NameSECONDARY
       /\ sec < n
       /\ NamedBy(NameNOTINTERMEDIATE) \cap NamedBy(NameSECONDARY) # {}
       /\ NamedBy(NameINTERMEDIATE) = {}

(***************************************************************************)
(* C27: the defaults of snap_file.  With all_secondary every file that is  *)
(* not notintermediate gets the default of .SECONDARY (it is marked        *)
(* intermediate) and no notintermediate file does; with no_intermediates   *)
(* every file that is neither intermediate nor secondary becomes           *)
(* notintermediate and no intermediate or secondary file does.             *)
(***************************************************************************)
DefaultsApplied(nodes) ==
  /\ globals.all_secondary =>
       \A f \in nodes :
         "intermediate" \in files[f].flags
           <=> "notintermediate" \notin files[f].flags
  /\ globals.no_intermediates =>
       \A f \in nodes :
         "notintermediate" \in files[f].flags
           <=> /\ "intermediate" \notin files[f].flags
               /\ "secondary" \notin files[f].flags

\* C27 as stated: the defaults are applied to every node
C27_DefaultsOnEveryNode ==
  (op.name = "snap_deps" /\ status = "running") => DefaultsApplied(FileIds)

\* C27 as the code has it: the defaults are applied to the files of the hash
\* table, that is to every file but the later members of a double-colon chain
C27_DefaultsOnTableNodes ==
  (op.name = "snap_deps" /\ status = "running") => DefaultsApplied(table)

\* .SECONDARY without prerequisites: a is notintermediate and stays so, b
\* has become intermediate
C27_Witness ==
  /\ op.name = "snap_deps"
  /\ status = "running"
  /\ globals.all_secondary
  /\ \E a, b \in table :
       /\ files[a].name = NameA
       /\ files[b].name = NameB
       /\ "notintermediate" \in files[a].flags
       /\ "intermediate" \notin files[a].flags
       /\ "intermediate" \in files[b].flags
       /\ "secondary" \notin files[b].flags

(***************************************************************************)
(* C26: after snap_deps every prerequisite but the first of each target    *)
(* that is a prerequisite of .NOTPARALLEL has wait_here set and the first  *)
(* one has not; .NOTPARALLEL without prerequisites sets not_parallel and   *)
(* no dep gets wait_here.                                                  *)
(***************************************************************************)
\* the deps of f from the second on, those that satisfy KEPT
WaitsAfterFirst(f, Kept(_)) ==
  LET l == EdgeList(files, deps, f)
  IN  /\ \A i \in 2..Len(l) : Kept(l[i]) => l[i].wait_here
      /\ Len(l) > 0 => ~l[1].wait_here

NoPrereqs(name) ==
  \E sp \in FileIds : files[sp].name = name /\ files[sp].deps = 0

AnyDep(c) == TRUE
FromRule(c) == ~c.ignore_automatic_vars

Serialized(Kept(_)) ==
  /\ \A t \in NamedBy(NameNOTPARALLEL) : WaitsAfterFirst(t, Kept)
  /\ NoPrereqs(NameNOTPARALLEL) =>
       /\ globals.not_parallel
       /\ \A d \in 1..Len(deps) : ~deps[d].wait_here

\* C26: after snap_deps all the prerequisites but the first of a target
\* named by .NOTPARALLEL wait
C26_AllButFirstWait ==
  (op.name = "snap_deps" /\ status = "running") => Serialized(AnyDep)

\* what the code keeps: the same for the prerequisites the rules gave
C26_RulePrereqsWait ==
  (op.name = "snap_deps" /\ status = "running") => Serialized(FromRule)

(***************************************************************************)
(* C29: remove_intermediates selects a file for deletion if and only if it *)
(* is intermediate, not secondary, not notintermediate, not a command-line *)
(* target, dontcare or not precious, and its update_status is not us_none. *)
(* A file is selected when the code gets to the unlink, or to the place of *)
(* the unlink under -n.                                                    *)
(***************************************************************************)
Reaped == op.name = "remove_intermediates"

Deletable(f) ==
  /\ "intermediate" \in files[f].flags
  /\ "secondary" \notin files[f].flags
  /\ "notintermediate" \notin files[f].flags
  /\ "cmd_target" \notin files[f].flags
  /\ "dontcare" \in files[f].flags \/ "precious" \notin files[f].flags
  /\ files[f].update_status # "us_none"

Selected == {reaper.selected[i] : i \in 1..Len(reaper.selected)}

\* the modes in which C30 has the Reaper do nothing
QuietMode ==
  \/ globals.just_print_flag
  \/ globals.question_flag
  \/ globals.touch_flag
  \/ globals.all_secondary
  \/ globals.no_intermediates

\* the cases in which the code returns at once
Punted ==
  \/ globals.question_flag
  \/ globals.touch_flag
  \/ globals.all_secondary
  \/ globals.no_intermediates
  \/ globals.just_print_flag /\ reaper.sig

\* C29 as stated: every node is selected if and only if it is deletable
C29_SelectsEveryDeletableNode ==
  (Reaped /\ ~QuietMode) => \A f \in FileIds : f \in Selected <=> Deletable(f)

\* C29 as the code has it: unless it returns at once, the files selected are
\* the deletable files of the hash table
C29_SelectsDeletableTableNodes ==
  (Reaped /\ ~Punted) => \A f \in FileIds :
                            f \in Selected <=> f \in table /\ Deletable(f)

\* the example of the claim: a and b are intermediate, precious and remade,
\* a is dontcare and is selected, b is not dontcare and is not selected
C29_Witness ==
  /\ Reaped
  /\ ~Punted
  /\ \E a, b \in table :
       /\ files[a].flags = {"intermediate", "precious", "dontcare"}
       /\ files[b].flags = {"intermediate", "precious"}
       /\ files[a].update_status = "us_success"
       /\ files[b].update_status = "us_success"
       /\ a \in Selected
       /\ b \notin Selected

(***************************************************************************)
(* C30: remove_intermediates does nothing, it deletes no file and reports  *)
(* nothing, under -n, -q or -t and when all_secondary or no_intermediates  *)
(* is set, whatever the flags of the files.                                *)
(***************************************************************************)
NothingDone ==
  /\ reaper.selected = <<>>
  /\ reaper.unlinked = <<>>
  /\ reaper.stdout = <<>>
  /\ reaper.stderr = <<>>

Calls == 1..Len(reaper.unlinked)

\* something was written about the file of this name
Mentioned(name) ==
  \/ \E i \in 1..Len(reaper.stdout) : reaper.stdout[i] = name
  \/ \E i \in 1..Len(reaper.stderr) : reaper.stderr[i].name = name

\* perror_with_name ("\nunlink: ", f->name) was called
FailureReported(name) ==
  \E i \in 1..Len(reaper.stderr) :
     reaper.stderr[i] = [msg |-> "unlink", name |-> name]

\* no slot was left out, whatever unlink returned
SweptAll == \A f \in table : Deletable(f) => f \in Selected

\* C31 as stated: ENOENT is not reported, every other failure is, and the
\* sweep examines every node
C31_EveryOtherFailureReported ==
  (Reaped /\ ~Punted) =>
     /\ \A i \in Calls :
          /\ reaper.results[i] = "ENOENT" =>
                ~Mentioned(files[reaper.unlinked[i]].name)
          /\ reaper.results[i] = "EIO" =>
                FailureReported(files[reaper.unlinked[i]].name)
     /\ SweptAll

\* C31 as the code has it: ENOENT is not reported, another failure is
\* reported unless the file is dontcare, and the sweep examines every node
\* of the table
C31_FailureReportedUnlessDontcare ==
  (Reaped /\ ~Punted) =>
     /\ \A i \in Calls :
          /\ reaper.results[i] = "ENOENT" =>
                ~Mentioned(files[reaper.unlinked[i]].name)
          /\ reaper.results[i] = "EIO" =>
                (FailureReported(files[reaper.unlinked[i]].name)
                   <=> "dontcare" \notin files[reaper.unlinked[i]].flags)
          /\ reaper.results[i] = "ok" =>
                ~FailureReported(files[reaper.unlinked[i]].name)
     /\ SweptAll

\* unlink fails for the first file with EIO and for the second with ENOENT:
\* the first failure is reported, the second file is not mentioned
C31_Witness ==
  /\ Reaped
  /\ Len(reaper.unlinked) = 2
  /\ reaper.results = <<"EIO", "ENOENT">>
  /\ FailureReported(files[reaper.unlinked[1]].name)
  /\ ~Mentioned(files[reaper.unlinked[2]].name)

(***************************************************************************)
(* C32: a call of next_dequoted_token on a text whose first token has a    *)
(* not escaped opening quote and no closing quote sets bit 0 of *status    *)
(* and leaves its other bits alone, leaves *s at the terminator, sets      *)
(* *tokenlen to the length of the token as it stands in the text, returns  *)
(* the beginning of the token and leaves the text as it was; a call on a   *)
(* text that begins with a well-formed token or has no token leaves        *)
(* *status as it was.  The tokens are told apart by the rules of token.h,  *)
(* read one character at a time.                                           *)
(***************************************************************************)
\* where the first token of the text at s begins: after the separators and
\* the escaped newlines
RECURSIVE FirstToken(_, _)
FirstToken(b, s) ==
  IF b[s] = NUL THEN s
  ELSE IF b[s] \in {" ", "\t", "\n"} THEN FirstToken(b, s + 1)
  ELSE IF b[s] = "\\" /\ b[s + 1] = "\n" THEN FirstToken(b, s + 2)
  ELSE s

\* the token read from i on, inside the quotes of kind q ("" outside of
\* quotes) and, if esc, right after an escaping backslash, reaches the end
\* of the text inside quotes
RECURSIVE Unclosed(_, _, _, _)
Unclosed(b, i, q, esc) ==
  IF b[i] = NUL THEN q # ""
  ELSE IF q = "'"
  THEN Unclosed(b, i + 1, IF b[i] = "'" THEN "" ELSE "'", FALSE)
  ELSE IF esc THEN Unclosed(b, i + 1, q, FALSE)
  ELSE IF b[i] = "\\"
  THEN IF q = "" /\ b[i + 1] = "\n" THEN FALSE
       ELSE Unclosed(b, i + 1, q, TRUE)
  ELSE IF q = "\""
  THEN Unclosed(b, i + 1, IF b[i] = "\"" THEN "" ELSE "\"", FALSE)
  ELSE IF b[i] \in {" ", "\t", "\n"} THEN FALSE
  ELSE IF b[i] \in {"'", "\""} THEN Unclosed(b, i + 1, b[i], FALSE)
  ELSE Unclosed(b, i + 1, "", FALSE)

Malformed(b, s) == Unclosed(b, FirstToken(b, s), "", FALSE)

Called == tok'.calls = tok.calls + 1

C32_UnclosedQuoteSetsStatus ==
  [][Called =>
       IF Malformed(tok.buf, tok.s)
       THEN /\ tok'.status % 2 = 1
            /\ tok'.status \div 2 = tok.status \div 2
            /\ tok'.s = Len(tok.buf)
            /\ tok'.token = FirstToken(tok.buf, tok.s)
            /\ tok'.tokenlen = Len(tok.buf) - tok'.token
            /\ tok'.buf = tok.buf
       ELSE tok'.status = tok.status]_vars

\* the call has found a token that begins with a quote and runs to the end
\* of the text, and has set bit 0 of a *status that was 2
C32_Witness ==
  /\ tok.calls >= 1
  /\ tok.status = 3
  /\ tok.token # 0
  /\ tok.buf[tok.token] \in {"'", "\""}
  /\ tok.tokenlen > 1
  /\ tok.token + tok.tokenlen = Len(tok.buf)
  /\ tok.s = Len(tok.buf)

(***************************************************************************)
(* C34: a call of next_dequoted_token that returns a token leaves *s after *)
(* the beginning of the token and not after the terminator; a call on a    *)
(* text that holds only separators returns 0, sets *tokenlen to 0 and      *)
(* leaves *s at the terminator, and so does every call after it; the calls *)
(* come to an end: every call that returns a token moves *s forward.       *)
(***************************************************************************)
OnlySeparators(b, s) == b[FirstToken(b, s)] = NUL

C34_IterationTerminates ==
  [][Called =>
       /\ tok'.buf # Aborted
       /\ tok'.buf # <<"UB">>
       /\ Len(tok'.buf) = Len(tok.buf)
       /\ tok'.buf[Len(tok.buf)] = NUL
       /\ \A i \in tok'.s..Len(tok.buf) : tok'.buf[i] = tok.buf[i]
       /\ tok'.token # 0 =>
            /\ tok.s <= tok'.token
            /\ tok'.token < tok'.s
            /\ tok'.s <= Len(tok.buf)
       /\ OnlySeparators(tok.buf, tok.s) =>
            /\ tok'.token = 0
            /\ tok'.tokenlen = 0
            /\ tok'.s = Len(tok.buf)
       /\ (tok.calls > 0 /\ tok.token = 0) => OnlySeparators(tok.buf, tok.s)
       /\ tok'.token = 0 => OnlySeparators(tok.buf, tok.s)]_vars

\* "a a a": three tokens were returned and terminated in place, then 0
\* was returned twice
C34_Witness ==
  /\ tok.calls = 5
  /\ tok.token = 0
  /\ tok.tokenlen = 0
  /\ tok.s = Len(tok.buf)
  /\ tok.buf = <<"a", NUL, "a", NUL, "a", NUL>>

C35_LookupFindsEntered ==
  [][\A n \in RoundNames :
       EnterFile(n) =>
         lookup_file(table', files', n) = enter_file(table, files, n).ret]_vars

\* what holds of the code: the file entered is found under the name
\* lookup_file makes of n, if that name is n and n is not a double-colon
\* target
C35_LookupFindsVerbatim ==
  [][\A n \in RoundNames :
       (/\ EnterFile(n)
        /\ LookupKey(n) = n
        /\ files'[enter_file(table, files, n).ret].double_colon = 0) =>
         lookup_file(table', files', n) = enter_file(table, files, n).ret]_vars

(***************************************************************************)
(* C36: whenever no call of expand_deps is under way, a file that is       *)
(* snapped has no dep with need_2nd_expansion, whatever the order of       *)
(* enter_file, rename_file, snap_deps and expand_deps.                     *)
(***************************************************************************)
Unexpanded(f) ==
  \E i \in 1..Len(DepList(deps, files[f].deps)) :
     deps[DepList(deps, files[f].deps)[i]].need_2nd_expansion

C36_SnappedHasNoUnexpandedDep ==
  stack = <<>> =>
    \A f \in FileIds : "snapped" \in files[f].flags => ~Unexpanded(f)

(***************************************************************************)
(* C37: no file is ever both intermediate and notintermediate, whatever    *)
(* the order of enter_file, snap_deps and rename_file, the merges of       *)
(* rename_file after snap_deps included.                                   *)
(***************************************************************************)
C37_NeverBothIntermediate ==
  \A f \in FileIds :
     ~({"intermediate", "notintermediate"} \subseteq files[f].flags)

(***************************************************************************)
(* C38: after any sequence of enter_file and rename_file that returned, no *)
(* file in the table has a renamed link, so no stub is in the table, and   *)
(* the renamed links followed from any stub end, without a cycle, at a     *)
(* file that is in the table.                                              *)
(***************************************************************************)
\* the file the renamed links lead to from f in at most n steps, 0 if the
\* links have not ended by then
RECURSIVE ForwardEnd(_, _)
ForwardEnd(f, n) ==
  IF files[f].renamed = 0 THEN f
  ELSE IF n = 0 THEN 0
  ELSE ForwardEnd(files[f].renamed, n - 1)

Stubs == {f \in FileIds : files[f].renamed # 0}

C38_ForwardingStructure ==
  status = "running" =>
    /\ \A f \in table : files[f].renamed = 0
    /\ \A f \in Stubs : ForwardEnd(f, Len(files)) \in table

\* a stub whose link leads to another stub, which leads to a file of the
\* table
C38_Witness ==
  /\ status = "running"
  /\ op.name = "rename_file"
  /\ \E f \in Stubs : files[f].renamed \in Stubs

(***************************************************************************)
(* C39: rename_file called with a stub as its file works on the file at    *)
(* the end of the stub's renamed links and returns without abort (), after *)
(* any earlier renames.                                                    *)
(***************************************************************************)
C39_StubRenameCompletes ==
  [][\A f \in Stubs, name \in EnterNames :
        RenameFile(f, name) => status' # "abort"]_vars

(***************************************************************************)
(* C40: whatever the interleaving of jobserver_acquire, jobserver_release  *)
(* and the SIGCHLD handler jobserver_signal, with jobserver_release called *)
(* at most once for each token acquired, the value of the semaphore is     *)
(* never above the number of slots it was created with.                    *)
(***************************************************************************)
C40_SemaphoreWithinSlots == js.sem <= js.slots

====
